---------------------------- MODULE Spec2Model ----------------------------
(***************************************************************************)
(* A model of the RobustSession engine of irssi-robustirc:                 *)
(*   src/core/robustsession/robustsession-network.c  (network registry)    *)
(*   src/core/robustsession/robustsession.c          (session engine)      *)
(*                                                                         *)
(* Time.  The code stores absolute instants (backoff->next) and only ever  *)
(* compares them with time(NULL) or subtracts time(NULL) from them; glib   *)
(* timers are relative.  The model keeps every instant as an offset from   *)
(* the current clock: the clock itself is TimeNow, an instant x is held as *)
(* x - time(NULL) clipped at 0, and the passing of d seconds subtracts d   *)
(* from every stored offset.                                               *)
(***************************************************************************)
EXTENDS Integers, Sequences, FiniteSets, TLC

VARIABLES
    networks,   \* static GHashTable *networks: key -> struct network_ctx
    retries,    \* pending struct server_retry_ctx (picks waiting on a timer)
    ctxs,       \* every struct t_robustsession_ctx allocated so far
    requests,   \* the live struct t_robustirc_request, by curl easy handle
    multi,      \* curl_handle: the easy handles added to it, in order
    multi_gm,   \* curl_handle_gm: the easy handles added to it, in order
    queries,    \* SRV lookups in flight (struct query)
    host,       \* what the host has been told and has done
    wire,       \* what the servers have accepted
    last,       \* history: the last operation performed and what it returned
    fails,      \* history: failed() calls per target since its last succeeded()
    used,       \* history: the targets a pick has delivered to a callback
    stream      \* history: the ids the frames of the stream carried themselves

netVars == <<networks, retries>>
engVars == <<ctxs, requests, multi, multi_gm, queries, host, wire>>
histVars == <<last, fails, used, stream>>
vars == <<networks, retries, ctxs, requests, multi, multi_gm, queries, host, wire,
          last, fails, used, stream>>

(***************************************************************************)
(* Bounds of the model.                                                    *)
(***************************************************************************)
MaxFails == 8        \* failed() calls in a row per target (SpecBackoff)
MaxNetFails == 1     \* failed() calls in a row per target (SpecNet)
MaxRetries == 1      \* picks waiting on a backoff timer at the same time
MaxListLen == 2      \* length of a server list carried by a RobustPing
MaxCtx == 2          \* sessions allocated in one run (Spec)
MaxSends == 1        \* lines the host submits in one run (Spec)
MaxLines == 2        \* lines the host submits in one run (SpecSend)

(***************************************************************************)
(* Program constants.                                                      *)
(***************************************************************************)
MaxExponent == 6     \* if (backoff->exponent < 6)
TimeNow == 0         \* time(NULL), the origin of every stored offset

(***************************************************************************)
(* Strings.  Targets are host:port strings; "A:1" is "a:1" in other case.  *)
(***************************************************************************)
Targets == {"a:1", "A:1", "b:1", "c:1"}
Address == "RobustIRC.net"
NoTarget == "-"

\* g_ascii_strdown on the strings of the model.
AsciiStrdown(s) ==
    CASE s = "A:1" -> "a:1"
      [] s = "RobustIRC.net" -> "robustirc.net"
      [] s = "Id" -> "id"
      [] s = "Reply" -> "reply"
      [] s = "Type" -> "type"
      [] s = "Data" -> "data"
      [] s = "Servers" -> "servers"
      [] s = "Session" -> "session"
      [] OTHER -> s

NetKey == AsciiStrdown(Address)

(***************************************************************************)
(* Helpers on sequences and sets.                                          *)
(***************************************************************************)
Range(q) == {q[i] : i \in 1..Len(q)}

SetMin(S) == CHOOSE x \in S : \A y \in S : x <= y

\* g_queue_pop_nth: the queue without its element at (1-based) position i.
RemoveAt(q, i) == [k \in 1..(Len(q) - 1) |-> IF k < i THEN q[k] ELSE q[k + 1]]

RECURSIVE Pow2(_)
Pow2(e) == IF e = 0 THEN 1 ELSE 2 * Pow2(e - 1)

Clip(x) == IF x < 0 THEN 0 ELSE x

\* The hash table h with key k bound to v (g_hash_table_replace).
HashReplace(h, k, v) ==
    [x \in (DOMAIN h) \cup {k} |-> IF x = k THEN v ELSE h[x]]

\* The hash table h without key k (g_hash_table_remove).
HashRemove(h, k) == [x \in (DOMAIN h) \ {k} |-> h[x]]

EmptyTable == [x \in {} |-> 0]

(***************************************************************************)
(* robustsession-network.c: operations on one struct network_ctx n.        *)
(***************************************************************************)

\* !backoff || backoff->next <= time(NULL)
Usable(n, s) == s \notin DOMAIN n.backoff \/ n.backoff[s].next <= TimeNow

\* A wrong robustsession_network_server: delivers the head of the queue
\* without looking at its backoff entry.
NetworkServerNoBackoff(n) ==
    [servers |-> n.servers, target |-> Head(n.servers), soonest |-> 0,
     ret |-> TRUE]

\* A wrong robustsession_network_server: a usable head is delivered and then
\* moved to the tail, so that picks go round the queue.
NetworkServerRoundRobin(n) ==
    LET server == Head(n.servers)
        q == Tail(n.servers) \o <<server>>
        ok == {i \in 1..Len(q) : Usable(n, q[i])}
    IN  IF Usable(n, server)
        THEN [servers |-> q, target |-> server, soonest |-> 0, ret |-> TRUE]
        ELSE IF ok # {}
        THEN [servers |-> <<q[SetMin(ok)]>> \o RemoveAt(q, SetMin(ok)),
              target |-> q[SetMin(ok)], soonest |-> 0, ret |-> TRUE]
        ELSE [servers |-> q, target |-> NoTarget,
              soonest |-> SetMin({n.backoff[q[i]].next - TimeNow : i \in 1..Len(q)}),
              ret |-> TRUE]

\* A wrong robustsession_network_server: the deferred re-pick waits for the
\* last backoff entry to expire, not the first.
NetworkServerLatest(n) ==
    LET server == Head(n.servers)
        q == Tail(n.servers) \o <<server>>
        ok == {i \in 1..Len(q) : Usable(n, q[i])}
    IN  IF Usable(n, server)
        THEN [servers |-> <<server>> \o Tail(n.servers),
              target |-> server, soonest |-> 0, ret |-> TRUE]
        ELSE IF ok # {}
        THEN [servers |-> <<q[SetMin(ok)]>> \o RemoveAt(q, SetMin(ok)),
              target |-> q[SetMin(ok)], soonest |-> 0, ret |-> TRUE]
        ELSE [servers |-> q, target |-> NoTarget,
              soonest |-> -SetMin({TimeNow - n.backoff[q[i]].next : i \in 1..Len(q)}),
              ret |-> TRUE]

\* robustsession_network_server on a resolved network with a non-empty queue:
\* the queue after the call, the target handed to the callback (NoTarget when
\* the callback is deferred), the seconds the deferred re-pick waits and the
\* value returned.
NetworkServer(n) ==
    LET server == Head(n.servers)
        q == Tail(n.servers) \o <<server>>
        ok == {i \in 1..Len(q) : Usable(n, q[i])}
    IN  IF Usable(n, server)
        THEN [servers |-> <<server>> \o Tail(n.servers),
              target |-> server, soonest |-> 0, ret |-> TRUE]
        ELSE IF ok # {}
        THEN [servers |-> <<q[SetMin(ok)]>> \o RemoveAt(q, SetMin(ok)),
              target |-> q[SetMin(ok)], soonest |-> 0, ret |-> TRUE]
        ELSE [servers |-> q, target |-> NoTarget,
              soonest |-> SetMin({n.backoff[q[i]].next - TimeNow : i \in 1..Len(q)}),
              ret |-> TRUE]

\* The exponent robustsession_network_failed gives target t.
FailedExponent(n, t) ==
    LET old == IF t \in DOMAIN n.backoff THEN n.backoff[t].exponent ELSE 0
    IN  IF old < MaxExponent THEN old + 1 ELSE old

\* A wrong robustsession_network_failed: nothing is recorded.
NetworkFailedForgets(n, t, jitter) == n

\* A wrong robustsession_network_failed: the exponent is not capped.
NetworkFailedNoCap(n, t, jitter) ==
    LET e == IF t \in DOMAIN n.backoff THEN n.backoff[t].exponent + 1 ELSE 1
    IN  [n EXCEPT !.backoff = HashReplace(n.backoff, t,
            [exponent |-> e, next |-> TimeNow + Pow2(e) + jitter])]

\* robustsession_network_failed; jitter is rand() % (backoff->exponent + 1).
NetworkFailed(n, t, jitter) ==
    LET e == FailedExponent(n, t)
    IN  [n EXCEPT !.backoff = HashReplace(n.backoff, t,
            [exponent |-> e, next |-> TimeNow + Pow2(e) + jitter])]

\* A wrong robustsession_network_succeeded: it resets the exponent and keeps
\* the entry, and with it the time of the next attempt.
NetworkSucceededKeepsEntry(n, t) ==
    IF t \in DOMAIN n.backoff
    THEN [n EXCEPT !.backoff[t].exponent = 0]
    ELSE n

\* robustsession_network_succeeded
NetworkSucceeded(n, t) == [n EXCEPT !.backoff = HashRemove(n.backoff, t)]

\* gcharcmp(a, b) == 0
GcharEqual(a, b) == AsciiStrdown(a) = AsciiStrdown(b)

\* The two lists hold the same servers, compared without regard to case.
SetEqualCI(a, b) ==
    {AsciiStrdown(x) : x \in Range(a)} = {AsciiStrdown(x) : x \in Range(b)}

\* A wrong robustsession_network_update_servers: the lists are compared
\* position by position, so a reordered list replaces the queue.
NetworkUpdateServersOrdered(n, servers) ==
    IF servers = <<>> \/ servers = n.servers THEN n
    ELSE [n EXCEPT !.servers = servers]

\* robustsession_network_update_servers
NetworkUpdateServers(n, servers) ==
    LET equal == \A i \in 1..Len(servers) :
                    \E k \in 1..Len(n.servers) : GcharEqual(n.servers[k], servers[i])
    IN  IF equal THEN n ELSE [n EXCEPT !.servers = servers]

\* The passing of d seconds, seen from one network.
NetworkElapse(n, d) ==
    [n EXCEPT !.backoff = [t \in DOMAIN n.backoff |->
        [n.backoff[t] EXCEPT !.next = Clip(n.backoff[t].next - d)]]]


(***************************************************************************)
(* robustsession-network.c: the same operations on the registry, found by  *)
(* address as the engine calls them; nets is the hash table networks.      *)
(***************************************************************************)

\* robustsession_network_failed(address, target)
RobustsessionNetworkFailed(nets, address, target, jitter) ==
    IF AsciiStrdown(address) \notin DOMAIN nets THEN nets
    ELSE [nets EXCEPT ![AsciiStrdown(address)] = NetworkFailed(@, target, jitter)]

\* robustsession_network_succeeded(address, target)
RobustsessionNetworkSucceeded(nets, address, target) ==
    IF AsciiStrdown(address) \notin DOMAIN nets THEN nets
    ELSE [nets EXCEPT ![AsciiStrdown(address)] = NetworkSucceeded(@, target)]

\* robustsession_network_update_servers(address, servers)
RobustsessionNetworkUpdateServers(nets, address, servers) ==
    IF AsciiStrdown(address) \notin DOMAIN nets THEN nets
    ELSE [nets EXCEPT ![AsciiStrdown(address)] = NetworkUpdateServers(@, servers)]

(***************************************************************************)
(* robustsession-network.c: resolving an address.  An address is read as   *)
(* the sequence of its pieces: a comma, a blank, or a run of other         *)
(* characters.                                                             *)
(***************************************************************************)
Chars(s) ==
    CASE s = "," -> <<",">>
      [] s = "a:1," -> <<"a:1", ",">>
      [] s = "a:1, b:1" -> <<"a:1", ",", " ", "b:1">>
      [] OTHER -> <<s>>

\* g_strsplit(string, ",", -1): the fields between the commas, of which there
\* is one more than there are commas.
RECURSIVE StrSplit(_)
StrSplit(cs) ==
    IF \A i \in 1..Len(cs) : cs[i] # "," THEN <<cs>>
    ELSE LET i == SetMin({k \in 1..Len(cs) : cs[k] = ","})
         IN  <<SubSeq(cs, 1, i - 1)>> \o StrSplit(SubSeq(cs, i + 1, Len(cs)))

\* g_strstrip: the field without its leading and trailing blanks.
RECURSIVE StrStrip(_)
StrStrip(f) ==
    IF f # <<>> /\ Head(f) = " " THEN StrStrip(Tail(f))
    ELSE IF f # <<>> /\ f[Len(f)] = " " THEN StrStrip(SubSeq(f, 1, Len(f) - 1))
    ELSE f

\* The string a stripped field spells ("" for an empty one).
Str(f) == IF f = <<>> THEN "" ELSE f[1]

\* g_new0(struct network_ctx, 1) with its queue and an empty backoff table.
NetworkCtx(servers) == [servers |-> servers, backoff |-> EmptyTable]

\* robustsession_network_resolve: the registry it leaves, whether it ran the
\* callback at once, and whether it started an SRV lookup.
RobustsessionNetworkResolve(nets, address) ==
    LET targets == StrSplit(Chars(address))
        stripped == [i \in 1..Len(targets) |-> Str(StrStrip(targets[i]))]
    IN  IF address \in DOMAIN nets
        THEN [networks |-> nets, callback |-> TRUE, query |-> FALSE]
        ELSE IF Len(targets) > 1
        THEN [networks |-> HashReplace(nets, AsciiStrdown(address),
                               NetworkCtx(SelectSeq(stripped, LAMBDA x : x # ""))),
              callback |-> TRUE, query |-> FALSE]
        ELSE [networks |-> nets, callback |-> FALSE, query |-> TRUE]

\* srv_resolved without an error: the registry after g_hash_table_insert.
NetworkSrvResolved(nets, address, targets) ==
    HashReplace(nets, AsciiStrdown(address), NetworkCtx(targets))

(***************************************************************************)
(* robustsession.c: requests and the GetMessages stream reader.            *)
(***************************************************************************)
RobustircToClient == 3   \* static const long robustirc_to_client = 3
RobustPing == 4          \* static const long robustping = 4
IdleTimeout == 60        \* g_timeout_add_seconds(60, get_messages_timeout, curl)

Null == "NULL"
NoTimer == -1
NoData == [ctx |-> 0, req |-> 0, line |-> 0, rand |-> 0]

\* strcasecmp(a, b) == 0
StrCaseEq(a, b) == AsciiStrdown(a) = AsciiStrdown(b)

\* yajl_alloc(&gm_callbacks, NULL, request): a parser that has read nothing.
\* stack holds the containers that are open, each with the key it is the
\* value of; key is the key whose value comes next.
YajlAlloc == [stack |-> <<>>, key |-> Null]

\* request->url_suffix: "/robustirc/v1/session" (sessionid Null), or
\* "/robustirc/v1/<sessionid>/<name>", where sessionid is FALSE when
\* ctx->sessionid was still NULL as the suffix was printed.
UrlSuffix(sessionid, name) == [sessionid |-> sessionid, name |-> name]

\* The body given to CURLOPT_COPYPOSTFIELDS: {"Data":..,"ClientMessageId":..}.
PostFields(data, id) == [Data |-> data, ClientMessageId |-> id]

\* A struct t_robustirc_request as g_new0 and its launcher leave it, with
\* what its easy handle was given (postfields, and for a GetMessages whose
\* host keeps URLs the cursor printed into "?lastseen=%s", <<>> otherwise).
\* server is FALSE once request->server is NULL; done marks a completed easy handle that was left
\* in its multi handle; timeout_tag is the time left on the idle timer;
\* servers is <<>> for NULL as well as for an empty queue (the registry
\* treats both alike).
Request(type, target, ctx, line) ==
    [type |-> type, target |-> target, ctx |-> ctx, line |-> line,
     url_suffix |-> UrlSuffix(Null, "session"), url_lastseen |-> <<>>,
     postfields |-> PostFields(0, 0),
     server |-> TRUE, done |-> FALSE, timeout_tag |-> NoTimer,
     parser |-> YajlAlloc, last_key |-> Null, data |-> Null,
     parsing_id |-> FALSE, parsing_servers |-> FALSE,
     last_id_id |-> 0, last_id_reply |-> 0, last_type |-> 0,
     depth |-> 0, servers |-> <<>>]

\* One yajl callback with its argument.
Token(cb, key, int, str) == [cb |-> cb, key |-> key, int |-> int, str |-> str]

\* The parser after it has read the token tok.  The token "error" stands
\* for bytes that are not JSON: yajl puts the error state on top of its state
\* stack, and from then on rejects whatever it is given.
YajlParse(p, tok) ==
    IF p.stack # <<>> /\ p.stack[Len(p.stack)].kind = "error" THEN p
    ELSE CASE tok.cb = "error" ->
                 [stack |-> Append(p.stack, [kind |-> "error", key |-> p.key]),
                  key |-> Null]
           [] tok.cb \in {"start_map", "start_array"} ->
                 [stack |-> Append(p.stack, [kind |-> tok.cb, key |-> p.key]),
                  key |-> Null]
           [] tok.cb \in {"end_map", "end_array"} ->
                 [stack |-> SubSeq(p.stack, 1, Len(p.stack) - 1), key |-> Null]
           [] tok.cb = "map_key" -> [p EXCEPT !.key = tok.key]
           [] OTHER -> [p EXCEPT !.key = Null]

\* gm_json_map_key
GmJsonMapKey(rq, val) == [rq EXCEPT !.last_key = val]

\* gm_json_integer
GmJsonInteger(rq, val) ==
    IF rq.last_key = Null THEN rq
    ELSE LET r1 == IF rq.parsing_id /\ StrCaseEq(rq.last_key, "id")
                   THEN [rq EXCEPT !.last_id_id = val]
                   ELSE IF rq.parsing_id /\ StrCaseEq(rq.last_key, "reply")
                   THEN [rq EXCEPT !.last_id_reply = val]
                   ELSE rq
         IN  IF StrCaseEq(rq.last_key, "type")
             THEN [r1 EXCEPT !.last_type = val]
             ELSE r1

\* gm_json_string
GmJsonString(rq, val) ==
    IF rq.parsing_servers THEN [rq EXCEPT !.servers = Append(@, val)]
    ELSE IF rq.last_key = Null THEN rq
    ELSE IF StrCaseEq(rq.last_key, "data") THEN [rq EXCEPT !.data = val]
    ELSE rq

\* gm_json_start_array
GmJsonStartArray(rq) ==
    IF rq.last_key # Null /\ StrCaseEq(rq.last_key, "servers")
    THEN [rq EXCEPT !.parsing_servers = TRUE, !.servers = <<>>]
    ELSE rq

\* gm_json_end_array
GmJsonEndArray(rq) == [rq EXCEPT !.parsing_servers = FALSE]

\* gm_json_start_map
GmJsonStartMap(rq) ==
    [rq EXCEPT !.parsing_id = (rq.last_key # Null /\ StrCaseEq(rq.last_key, "id")),
               !.depth = @ + 1]

(***************************************************************************)
(* From here on an operation takes the whole state of the program, a       *)
(* record w with one field per variable, and yields the state it leaves.   *)
(***************************************************************************)

\* signal_emit / printformat_module / server_connect_finished: the host is
\* told sig; late collects what it is told after it destroyed its session,
\* touched what it is told after it made its session write-only (kept only
\* for a host that is watched).
Emit(w, sig) ==
    [w EXCEPT !.host.late = IF w.host.destroyed THEN @ \cup {sig} ELSE @,
              !.host.touched = IF w.host.write_only /\ w.host.watch
                               THEN @ \cup {sig} ELSE @,
              !.host.heard = IF w.host.listen THEN Append(@, sig) ELSE @]

\* A wrong dispatch: the cursor is advanced before the line is emitted.
DispatchLineCursorFirst(w, r) ==
    LET rq == w.requests[r]
        id == <<rq.last_id_id, rq.last_id_reply>>
    IN  [Emit(w, "incoming") EXCEPT
            !.host.incoming = [data |-> rq.data, seen |-> id],
            !.requests[r].data = Null,
            !.ctxs[rq.ctx].lastseen = id]

\* gm_json_end_map, the body of its first if: signal_emit("server incoming"),
\* then ctx->lastseen.  The host sees the line (data); the model records with
\* it the cursor as it stands at that moment (seen).
DispatchLine(w, r) ==
    LET rq == w.requests[r]
        id == <<rq.last_id_id, rq.last_id_reply>>
    IN  [Emit(w, "incoming") EXCEPT
            !.host.incoming = [data |-> rq.data,
                               seen |-> w.ctxs[rq.ctx].lastseen],
            !.requests[r].data = Null,
            !.ctxs[rq.ctx].lastseen = id]

\* gm_json_end_map, the body of its second if: a RobustPing re-arms the idle
\* timer and hands its server list to the registry.
PingReceived(w, r) ==
    [w EXCEPT !.requests[r].timeout_tag = IdleTimeout,
              !.networks = RobustsessionNetworkUpdateServers(
                               @, Address, w.requests[r].servers),
              !.requests[r].servers = <<>>]

\* gm_json_end_map
GmJsonEndMap(w, r) ==
    LET rq == [w.requests[r] EXCEPT !.parsing_id = FALSE, !.depth = @ - 1]
        w0 == [w EXCEPT !.requests[r] = rq]
        w1 == IF rq.data # Null /\ rq.last_type = RobustircToClient
              THEN DispatchLine(w0, r) ELSE w0
        w2 == IF rq.last_type = RobustPing THEN PingReceived(w1, r) ELSE w1
    IN  IF rq.depth > 0 THEN w0
        ELSE [w2 EXCEPT !.networks =
                            RobustsessionNetworkSucceeded(@, Address, rq.target)]

\* gm_callbacks: the callback yajl runs for the token tok.
GmCallback(w, r, tok) ==
    LET rq == w.requests[r] IN
    CASE tok.cb = "map_key" -> [w EXCEPT !.requests[r] = GmJsonMapKey(rq, tok.key)]
      [] tok.cb = "integer" -> [w EXCEPT !.requests[r] = GmJsonInteger(rq, tok.int)]
      [] tok.cb = "string" -> [w EXCEPT !.requests[r] = GmJsonString(rq, tok.str)]
      [] tok.cb = "start_array" -> [w EXCEPT !.requests[r] = GmJsonStartArray(rq)]
      [] tok.cb = "end_array" -> [w EXCEPT !.requests[r] = GmJsonEndArray(rq)]
      [] tok.cb = "start_map" -> [w EXCEPT !.requests[r] = GmJsonStartMap(rq)]
      [] tok.cb = "end_map" -> GmJsonEndMap(w, r)

\* A wrong gm_write_func: a chunk that does not parse ends the session.
RECURSIVE GmWriteFuncAbort(_, _, _)
GmWriteFuncAbort(w, r, chunk) ==
    IF chunk = <<>> THEN w
    ELSE LET p == YajlParse(w.requests[r].parser, Head(chunk))
             w1 == [w EXCEPT !.requests[r].parser = p]
         IN  IF p.stack # <<>> /\ p.stack[Len(p.stack)].kind = "error"
             THEN Emit([w1 EXCEPT !.host.connection_lost = TRUE], "disconnected")
             ELSE GmWriteFuncAbort(GmCallback(w1, r, Head(chunk)), r, Tail(chunk))

\* gm_write_func: yajl_parse over a chunk, given as the tokens it holds.
\* yajl runs the callbacks of the tokens it reads until the chunk ends or
\* does not parse; then the error is printed and the chunk counts as read.
RECURSIVE GmWriteFunc(_, _, _)
GmWriteFunc(w, r, chunk) ==
    IF chunk = <<>> THEN w
    ELSE LET p == YajlParse(w.requests[r].parser, Head(chunk))
             w1 == [w EXCEPT !.requests[r].parser = p]
         IN  IF p.stack # <<>> /\ p.stack[Len(p.stack)].kind = "error"
             THEN Emit(w1, "error_parse_json")
             ELSE GmWriteFunc(GmCallback(w1, r, Head(chunk)), r, Tail(chunk))

(***************************************************************************)
(* robustsession.c: launching, completing and aborting requests.           *)
(***************************************************************************)

\* The easy handle curl_easy_init returns: one no live request holds.
NewHandle(w) ==
    SetMin((1..(Cardinality(DOMAIN w.requests) + 1)) \ DOMAIN w.requests)

\* The sequence q without the element x (g_list_remove,
\* curl_multi_remove_handle).
Without(q, x) == SelectSeq(q, LAMBDA y : y # x)

\* curl_multi_add_handle(curl_handle or curl_handle_gm, curl) and
\* ctx->curl_handles = g_list_append(ctx->curl_handles, curl).
AddHandle(w, r) ==
    [w EXCEPT !.multi = IF w.requests[r].type = "GetMessages" THEN @ ELSE Append(@, r),
              !.multi_gm = IF w.requests[r].type = "GetMessages" THEN Append(@, r) ELSE @,
              !.ctxs[w.requests[r].ctx].curl_handles = Append(@, r)]

\* curl_multi_remove_handle and g_list_remove(ctx->curl_handles, curl); for
\* a GetMessages request g_source_remove(request->timeout_tag) as well.
RemoveHandle(w, r) ==
    [w EXCEPT !.multi = Without(@, r),
              !.multi_gm = Without(@, r),
              !.ctxs[w.requests[r].ctx].curl_handles = Without(@, r),
              !.requests[r].timeout_tag = NoTimer]

\* free(request) after curl_easy_cleanup.
FreeRequest(w, r) ==
    [w EXCEPT !.requests = [x \in (DOMAIN @) \ {r} |-> @[x]]]

\* robustsession_connect_target
RobustsessionConnectTarget(w, target, userdata) ==
    LET r == NewHandle(w) IN
    AddHandle([w EXCEPT !.requests = HashReplace(@, r,
                  Request("CreateSession", target, userdata.ctx, 0))], r)

\* get_messages
GetMessages(w, target, userdata) ==
    LET r == NewHandle(w) IN
    AddHandle([w EXCEPT !.requests = HashReplace(@, r,
                  [Request("GetMessages", target, userdata.ctx, 0)
                      EXCEPT !.timeout_tag = IdleTimeout,
                             !.url_lastseen = IF w.host.urls
                                 THEN w.ctxs[userdata.ctx].lastseen ELSE @,
                             !.url_suffix = UrlSuffix(w.ctxs[userdata.ctx].sessionid,
                                                      "messages")])], r)

\* g_str_hash of a line; line k stands for the string of the one character
\* with code k.  With the lines and rand() values of the model the guint sum
\* of the ClientMessageId stays far below 2^32 and never wraps.
GStrHash(buffer) == 5381 * 33 + buffer

\* robustsession_send_target; userdata.rand is what its rand() returns.
RobustsessionSendTarget(w, target, userdata) ==
    LET r == NewHandle(w) IN
    AddHandle([w EXCEPT !.requests = HashReplace(@, r,
                  [Request("PostMessage", target, userdata.ctx, userdata.line)
                      EXCEPT !.postfields =
                                 PostFields(userdata.line,
                                     GStrHash(userdata.line) + userdata.rand),
                             !.url_suffix = UrlSuffix(w.ctxs[userdata.ctx].sessionid,
                                                      "message")])], r)

\* A wrong retry_request: the body of a PostMessage is generated again, with
\* another draw of rand() in its ClientMessageId.
RetryRequestNewBody(w, target, userdata) ==
    LET r == userdata.req IN
    AddHandle([Emit(w, "error_retry") EXCEPT
                  !.requests[r].target = target,
                  !.requests[r].postfields.ClientMessageId = @ + 1], r)

\* A wrong retry_request: a GetMessages is reissued with the URL it had.
RetryRequestOldCursor(w, target, userdata) ==
    LET r == userdata.req
        gm == w.requests[r].type = "GetMessages"
    IN  AddHandle([Emit(w, "error_retry") EXCEPT
                      !.requests[r].parser = IF gm THEN YajlAlloc ELSE @,
                      !.requests[r].target = target,
                      !.requests[r].timeout_tag = IF gm THEN IdleTimeout ELSE @], r)

\* retry_request
RetryRequest(w, target, userdata) ==
    LET r == userdata.req
        gm == w.requests[r].type = "GetMessages"
    IN  AddHandle([Emit(w, "error_retry") EXCEPT
                      !.requests[r].parser = IF gm THEN YajlAlloc ELSE @,
                      !.requests[r].target = target,
                      !.requests[r].url_lastseen =
                          IF gm /\ w.host.urls
                          THEN w.ctxs[w.requests[r].ctx].lastseen ELSE @,
                      !.requests[r].timeout_tag = IF gm THEN IdleTimeout ELSE @], r)

\* callback(server, userdata) at the end of a pick.
Callback(w, callback, target, userdata) ==
    CASE callback = "robustsession_connect_target" ->
            RobustsessionConnectTarget(w, target, userdata)
      [] callback = "get_messages" -> GetMessages(w, target, userdata)
      [] callback = "robustsession_send_target" ->
            RobustsessionSendTarget(w, target, userdata)
      [] callback = "retry_request" -> RetryRequest(w, target, userdata)

\* struct server_retry_ctx; wait is the time left on its timeout_id,
\* cancellable the session whose GCancellable it is connected to.
RetryCtx(address, random, cancellable, callback, userdata, soonest) ==
    [address |-> address, random |-> random, cancellable |-> cancellable,
     callback |-> callback, userdata |-> userdata, wait |-> soonest]

\* robustsession_network_server as the engine calls it: the callback runs at
\* once with a usable target, or a server_retry_ctx waits for the soonest
\* backoff entry to run out; an unresolved address is answered with FALSE,
\* which no caller looks at.
RobustsessionNetworkServerNoTimer(w, address, random, cancellable, callback, userdata) ==
    LET key == AsciiStrdown(address) IN
    IF key \notin DOMAIN w.networks THEN w
    ELSE LET p == NetworkServer(w.networks[key])
             w1 == [w EXCEPT !.networks[key].servers = p.servers]
         IN  IF p.target # NoTarget
             THEN Callback(w1, callback, p.target, userdata)
             ELSE w1

RobustsessionNetworkServer(w, address, random, cancellable, callback, userdata) ==
    LET key == AsciiStrdown(address) IN
    IF key \notin DOMAIN w.networks THEN w
    ELSE LET p == NetworkServer(w.networks[key])
             w1 == [w EXCEPT !.networks[key].servers = p.servers]
         IN  IF p.target # NoTarget
             THEN Callback(w1, callback, p.target, userdata)
             ELSE IF w.ctxs[cancellable].cancelled
             THEN w1
             ELSE [w1 EXCEPT !.retries = Append(@,
                      RetryCtx(address, random, cancellable, callback, userdata,
                               p.soonest))]

\* create_session_done on a body that holds Sessionid and Sessionauth.
CreateSessionDone(w, r) ==
    Emit([w EXCEPT !.ctxs[w.requests[r].ctx].sessionid = TRUE], "connected")

\* A wrong check_multi_info: the server reference is looked at only after the
\* outcome has been recorded in the registry.
CheckMultiInfoLateServerCheck(w, r, result, http_code, body, jitter) ==
    LET rq == w.requests[r]
        gm == rq.type = "GetMessages"
        error == result # "CURLE_OK" \/ http_code # 200
        temporary_error == result # "CURLE_OK" \/ (http_code >= 500 /\ http_code < 600)
        w1 == IF result # "CURLE_OK" THEN Emit(w, "error_temporary") ELSE w
        w2 == [w1 EXCEPT !.networks =
                  IF error \/ gm
                  THEN RobustsessionNetworkFailed(@, Address, rq.target, jitter)
                  ELSE RobustsessionNetworkSucceeded(@, Address, rq.target)]
    IN  IF ~rq.server THEN FreeRequest(RemoveHandle(w2, r), r)
        ELSE IF (error /\ temporary_error) \/ (~error /\ gm)
        THEN RobustsessionNetworkServer(RemoveHandle(w2, r), Address, gm, rq.ctx,
                 "retry_request", [NoData EXCEPT !.req = r])
        ELSE IF error
        THEN [Emit(Emit(w2, "error_permanent"), "disconnected") EXCEPT
                 !.host.connection_lost = TRUE,
                 !.requests[r].done = TRUE]
        ELSE IF rq.type = "CreateSession" /\ body
        THEN FreeRequest(RemoveHandle(
                 RobustsessionNetworkServer(CreateSessionDone(w2, r), Address, TRUE,
                     rq.ctx, "get_messages", [NoData EXCEPT !.ctx = rq.ctx]), r), r)
        ELSE IF rq.type = "CreateSession"
        THEN FreeRequest(RemoveHandle(Emit(w2, "error_parse_json"), r), r)
        ELSE FreeRequest(RemoveHandle(w2, r), r)

\* check_multi_info for one completed easy handle r: result is the CURLcode,
\* http_code the response code, body whether a CreateSession body can be read.
CheckMultiInfo(w, r, result, http_code, body, jitter) ==
    LET rq == w.requests[r]
        gm == rq.type = "GetMessages"
        error == result # "CURLE_OK" \/ http_code # 200
        temporary_error == result # "CURLE_OK" \/ (http_code >= 500 /\ http_code < 600)
        w1 == IF result # "CURLE_OK" THEN Emit(w, "error_temporary") ELSE w
        w2 == [w1 EXCEPT !.networks =
                  IF error \/ gm
                  THEN RobustsessionNetworkFailed(@, Address, rq.target, jitter)
                  ELSE RobustsessionNetworkSucceeded(@, Address, rq.target)]
    IN  IF ~rq.server THEN FreeRequest(RemoveHandle(w, r), r)
        ELSE IF (error /\ temporary_error) \/ (~error /\ gm)
        THEN RobustsessionNetworkServer(RemoveHandle(w2, r), Address, gm, rq.ctx,
                 "retry_request", [NoData EXCEPT !.req = r])
        ELSE IF error
        THEN [Emit(Emit(w2, "error_permanent"), "disconnected") EXCEPT
                 !.host.connection_lost = TRUE,
                 !.requests[r].done = TRUE]
        ELSE IF rq.type = "CreateSession" /\ body
        THEN FreeRequest(RemoveHandle(
                 RobustsessionNetworkServer(CreateSessionDone(w2, r), Address, TRUE,
                     rq.ctx, "get_messages", [NoData EXCEPT !.ctx = rq.ctx]), r), r)
        ELSE IF rq.type = "CreateSession"
        THEN FreeRequest(RemoveHandle(Emit(w2, "error_parse_json"), r), r)
        ELSE FreeRequest(RemoveHandle(w2, r), r)

\* A wrong get_messages_timeout: the request that timed out stays in
\* curl_handle_gm while its successor is launched.
GetMessagesTimeoutKeepsRequest(w, r, jitter) ==
    LET rq == w.requests[r]
        w1 == [w EXCEPT !.networks =
                  RobustsessionNetworkFailed(@, Address, rq.target, jitter),
                  !.requests[r].timeout_tag = NoTimer]
    IN  RobustsessionNetworkServer(w1, Address, TRUE,
            rq.ctx, "get_messages", [NoData EXCEPT !.ctx = rq.ctx])

\* get_messages_timeout
GetMessagesTimeout(w, r, jitter) ==
    LET rq == w.requests[r]
        w1 == [w EXCEPT !.networks =
                  RobustsessionNetworkFailed(@, Address, rq.target, jitter)]
    IN  RobustsessionNetworkServer(FreeRequest(RemoveHandle(w1, r), r), Address, TRUE,
            rq.ctx, "get_messages", [NoData EXCEPT !.ctx = rq.ctx])

\* robustsession_connect_resolved
RobustsessionConnectResolved(w, userdata) ==
    RobustsessionNetworkServer(w, Address, TRUE, userdata.ctx,
        "robustsession_connect_target", userdata)

\* A struct t_robustsession_ctx as robustsession_connect makes it.  lastseen
\* is the pair <<id, reply>> that ctx->lastseen prints as "id.reply".
Ctx ==
    [sessionid |-> FALSE, lastseen |-> <<0, 0>>, curl_handles |-> <<>>,
     cancelled |-> FALSE, freed |-> FALSE]

\* robustsession_connect with robustsession_network_resolve: the new session
\* is the last element of ctxs.  The registry is looked up under the address
\* as the host wrote it.
RobustsessionConnect(w) ==
    LET c == Len(w.ctxs) + 1
        w1 == [w EXCEPT !.ctxs = Append(@, Ctx)]
        res == RobustsessionNetworkResolve(w.networks, Address)
        w2 == IF res.callback
              THEN RobustsessionConnectResolved([w1 EXCEPT !.networks = res.networks],
                                                [NoData EXCEPT !.ctx = c])
              ELSE [w1 EXCEPT !.queries = Append(@, [ctx |-> c, freed |-> FALSE])]
    IN  Emit(w2, "looking")

\* srv_resolved for the lookup queries[i].  targets is the list the resolver
\* answers with, <<>> when it fails (err != NULL).  A lookup of a session
\* that was destroyed meanwhile finds its struct query freed by
\* resolve_cancelled: reading query->cancellable is then undefined, and stale
\* says whether the read still finds the cancelled GCancellable.
SrvResolved(w, i, targets, stale) ==
    LET q == w.queries[i]
        w1 == [w EXCEPT !.queries = RemoveAt(@, i)]
    IN  IF q.freed /\ stale THEN w1
        ELSE IF q.freed \/ targets = <<>> THEN RobustsessionConnect(w1)
        ELSE RobustsessionConnectResolved(
                 [w1 EXCEPT !.networks = NetworkSrvResolved(@, Address, targets)],
                 [NoData EXCEPT !.ctx = q.ctx])

\* robustsession_send; rand is the value rand() has in store for the
\* robustsession_send_target of this line.
RobustsessionSend(w, c, line, rand) ==
    RobustsessionNetworkServer(w, Address, FALSE, c, "robustsession_send_target",
        [NoData EXCEPT !.ctx = c, !.line = line, !.rand = rand])

\* The requests of session c that robustsession_write_only and
\* robustsession_destroy walk over.
Handles(w, c) == Range(w.ctxs[c].curl_handles)

\* robustsession_write_only
RobustsessionWriteOnly(w, c) ==
    LET gone == {r \in Handles(w, c) : w.requests[r].type = "GetMessages"} IN
    [w EXCEPT !.requests = [r \in (DOMAIN @) \ gone |->
                               IF r \in Handles(w, c)
                               THEN [@[r] EXCEPT !.server = FALSE] ELSE @[r]],
              !.multi_gm = SelectSeq(@, LAMBDA r : r \notin gone),
              !.ctxs[c].curl_handles = SelectSeq(@, LAMBDA r : r \notin gone)]

\* robustsession_destroy: g_cancellable_cancel runs retry_cancelled and
\* resolve_cancelled, then every handle of the session is removed and freed.
RobustsessionDestroy(w, c) ==
    LET gone == Handles(w, c) IN
    [w EXCEPT !.retries = SelectSeq(@, LAMBDA x : x.cancellable # c),
              !.queries = [i \in DOMAIN @ |->
                              IF @[i].ctx = c THEN [@[i] EXCEPT !.freed = TRUE]
                              ELSE @[i]],
              !.requests = [r \in (DOMAIN @) \ gone |-> @[r]],
              !.multi = SelectSeq(@, LAMBDA r : r \notin gone),
              !.multi_gm = SelectSeq(@, LAMBDA r : r \notin gone),
              !.ctxs[c] = [@ EXCEPT !.cancelled = TRUE, !.freed = TRUE,
                                    !.curl_handles = <<>>]]

(***************************************************************************)
(* robustio.c: the GIOChannel the host writes to and closes.               *)
(***************************************************************************)

\* robust_io_write: the buffer is one line, handed to robustsession_send.
RobustIoWrite(w, robustsession, buf, rand) ==
    RobustsessionSend(w, robustsession, buf, rand)

\* robust_io_close
RobustIoClose(w, robustsession) == RobustsessionDestroy(w, robustsession)
(***************************************************************************)
(* The network registry on its own: picks, completions reported by         *)
(* failed() and succeeded(), server lists of RobustPing frames, time.      *)
(***************************************************************************)

\* The server lists a RobustPing may carry: no server twice, in any case.
PingTargets == {"a:1", "A:1", "b:1"}

ServerLists ==
    {l \in UNION {[1..k -> PingTargets] : k \in 0..MaxListLen} :
        \A i, j \in 1..Len(l) : AsciiStrdown(l[i]) = AsciiStrdown(l[j]) => i = j}

\* num: for a pick the seconds its re-pick waits (soonest); for succeeded the
\* exponent of the entry it removed (0: there was none); for an update 1 when
\* the list was the queue's set of servers in another order or case, else 0.
Event(op, target, num) == [op |-> op, target |-> target, num |-> num]

\* What the host holds before it has connected: ctx is the session it was
\* handed (0: none), sent the number of lines it has submitted, incoming the
\* last line it was given; while listen is set, heard is what the session
\* printed and signalled to it, in order; while urls is set, the cursor in
\* the URL of each GetMessages request is kept with the request.
HostInit ==
    [ctx |-> 0, destroyed |-> FALSE, write_only |-> FALSE,
     connection_lost |-> FALSE, sent |-> 0, late |-> {}, touched |-> {},
     watch |-> FALSE, listen |-> FALSE, heard |-> <<>>, urls |-> FALSE,
     incoming |-> [data |-> Null, seen |-> <<0, 0>>]]

StreamInit == [own |-> <<0, 0>>, dispatched |-> FALSE, id |-> <<0, 0>>]

InitHist ==
    /\ last = Event("init", NoTarget, 0)
    /\ fails = [t \in Targets |-> 0]
    /\ used = {}
    /\ stream = StreamInit

\* No session exists.
EngIdle ==
    /\ ctxs = <<>>
    /\ requests = EmptyTable
    /\ multi = <<>>
    /\ multi_gm = <<>>
    /\ queries = <<>>
    /\ host = HostInit
    /\ wire = <<>>

NetInit ==
    /\ networks = [k \in {NetKey} |->
                      [servers |-> <<"a:1", "b:1", "c:1">>, backoff |-> EmptyTable]]
    /\ retries = <<>>
    /\ EngIdle
    /\ InitHist

UpdateInit ==
    /\ networks = [k \in {NetKey} |->
                      [servers |-> <<"a:1">>, backoff |-> EmptyTable]]
    /\ retries = <<>>
    /\ EngIdle
    /\ InitHist

BackoffInit ==
    /\ networks = [k \in {NetKey} |->
                      [servers |-> <<"a:1", "b:1">>, backoff |-> EmptyTable]]
    /\ retries = <<>>
    /\ EngIdle
    /\ InitHist

\* robustsession_network_server(address, random, cancellable, callback,
\* userdata) called with a probe callback that records the target it is given.
ProbePick(address, random, pending) ==
    LET key == AsciiStrdown(address) IN
    /\ key \in DOMAIN networks
    /\ networks[key].servers # <<>>
    /\ LET r == NetworkServer(networks[key]) IN
        /\ r.target = NoTarget => Len(pending) < MaxRetries
        /\ networks' = [networks EXCEPT ![key].servers = r.servers]
        /\ retries' = IF r.target = NoTarget
                      THEN Append(pending,
                                  RetryCtx(address, random, 0, "probe", NoData, r.soonest))
                      ELSE pending
        /\ last' = Event("pick", r.target, r.soonest)
        /\ used' = IF r.target = NoTarget THEN used ELSE used \cup {r.target}
        /\ UNCHANGED <<fails, stream>>
        /\ UNCHANGED engVars

NetPick == \E random \in BOOLEAN : ProbePick(Address, random, retries)

\* robustsession_network_server_retry_cb
NetRetryFire ==
    \E i \in 1..Len(retries) :
        /\ retries[i].wait = 0
        /\ ProbePick(retries[i].address, retries[i].random, RemoveAt(retries, i))

\* A request on target t ends in failure (check_multi_info,
\* get_messages_timeout): robustsession_network_failed(address, t).
FailedCall(t) ==
    /\ t \in used
    /\ NetKey \in DOMAIN networks
    /\ \E jitter \in 0..MaxExponent :
        /\ jitter <= FailedExponent(networks[NetKey], t)
        /\ networks' = [networks EXCEPT
                           ![NetKey] = NetworkFailed(networks[NetKey], t, jitter)]
    /\ last' = Event("failed", t, 0)
    /\ UNCHANGED <<retries, used, stream>>
    /\ UNCHANGED engVars

\* In SpecNet a target fails up to MaxNetFails times before it succeeds again.
NetFailed ==
    \E t \in Targets :
        /\ t \in DOMAIN networks[NetKey].backoff =>
                networks[NetKey].backoff[t].exponent < MaxNetFails
        /\ FailedCall(t)
        /\ UNCHANGED fails

\* In SpecBackoff the head target of the initial queue fails up to MaxFails
\* times in a row, every other target up to MaxNetFails times.
BackoffFailed ==
    \E t \in Targets :
        /\ fails[t] < (IF t = "a:1" THEN MaxFails ELSE MaxNetFails)
        /\ FailedCall(t)
        /\ fails' = [fails EXCEPT ![t] = @ + 1]

\* A request on target t makes progress (check_multi_info, gm_json_end_map):
\* robustsession_network_succeeded(address, t).
NetSucceeded ==
    \E t \in used :
        /\ NetKey \in DOMAIN networks
        /\ networks' = [networks EXCEPT
                           ![NetKey] = NetworkSucceeded(networks[NetKey], t)]
        /\ fails' = [fails EXCEPT ![t] = 0]
        /\ last' = Event("succeeded", t,
                          IF t \in DOMAIN networks[NetKey].backoff
                          THEN networks[NetKey].backoff[t].exponent ELSE 0)
        /\ UNCHANGED <<retries, used, stream>>
        /\ UNCHANGED engVars

\* A RobustPing carries a server list (gm_json_end_map):
\* robustsession_network_update_servers(address, servers).
NetUpdate ==
    \E servers \in ServerLists :
        /\ NetKey \in DOMAIN networks
        /\ networks' = [networks EXCEPT
                           ![NetKey] = NetworkUpdateServers(networks[NetKey], servers)]
        /\ last' = Event("update", NoTarget,
                          IF SetEqualCI(servers, networks[NetKey].servers)
                             /\ servers # networks[NetKey].servers THEN 1 ELSE 0)
        /\ UNCHANGED <<retries, fails, used, stream>>
        /\ UNCHANGED engVars

\* The offsets of the instants that still lie ahead: backoff entries, retry
\* timers, idle timers.
Deadlines ==
    UNION {{networks[k].backoff[t].next : t \in DOMAIN networks[k].backoff} :
              k \in DOMAIN networks}
    \cup {retries[i].wait : i \in 1..Len(retries)}
    \cup {requests[r].timeout_tag : r \in DOMAIN requests}

\* d seconds pass, unless a timer is due.
ElapseStep(d) ==
    /\ \A i \in 1..Len(retries) : retries[i].wait > 0
    /\ \A r \in DOMAIN requests : requests[r].timeout_tag # 0
    /\ networks' = [k \in DOMAIN networks |-> NetworkElapse(networks[k], d)]
    /\ retries' = [i \in 1..Len(retries) |->
                      [retries[i] EXCEPT !.wait = Clip(@ - d)]]
    /\ requests' = [r \in DOMAIN requests |->
                       [requests[r] EXCEPT !.timeout_tag =
                           IF @ = NoTimer THEN @ ELSE Clip(@ - d)]]
    /\ UNCHANGED <<ctxs, multi, multi_gm, queries, host, wire>>

Elapse(d) == ElapseStep(d) /\ UNCHANGED <<fails, used, stream>>

\* One second passes.
NetTick ==
    /\ Deadlines \ {0, NoTimer} # {}
    /\ Elapse(1)
    /\ last' = Event("tick", NoTarget, 0)

\* Time passes until the next instant some backoff entry or timer waits for.
NetTickNext ==
    /\ Deadlines \ {0, NoTimer} # {}
    /\ Elapse(SetMin(Deadlines \ {0, NoTimer}))
    /\ last' = Event("tick", NoTarget, 0)

\* The registry under picks and completions, with three servers.
NetNext == NetPick \/ NetRetryFire \/ NetFailed \/ NetSucceeded \/ NetTick

SpecNet == NetInit /\ [][NetNext]_vars

\* The registry under RobustPing server lists.
UpdateNext ==
    NetPick \/ NetRetryFire \/ NetFailed \/ NetSucceeded \/ NetUpdate \/ NetTickNext

SpecUpdate == UpdateInit /\ [][UpdateNext]_vars

\* The registry under repeated failures of one server.
BackoffNext == NetPick \/ NetRetryFire \/ BackoffFailed \/ NetSucceeded \/ NetTickNext

SpecBackoff == BackoffInit /\ [][BackoffNext]_vars


(***************************************************************************)
(* The network registry under resolves: the host connects to addresses     *)
(* written in several ways while earlier lookups are pending, and the      *)
(* networks that exist are picked from and fail.                           *)
(***************************************************************************)
MaxQueries == 2      \* SRV lookups pending at the same time (SpecResolve)

\* server->connrec->address as the host may give it: a name in two cases and
\* comma-separated lists of targets.
Addresses == {"RobustIRC.net", "robustirc.net", ",", "a:1,", "a:1, b:1"}

\* What an SRV lookup that succeeds may answer.
SrvAnswers == {<<"a:1", "b:1">>, <<"b:1">>}

ResolveInit ==
    /\ networks = EmptyTable
    /\ retries = <<>>
    /\ EngIdle
    /\ InitHist

\* robustsession_network_resolve(server, cancellable, callback, userdata) for
\* a server of the given address; num records whether the callback ran.
ResolveCall ==
    \E address \in Addresses :
        LET res == RobustsessionNetworkResolve(networks, address) IN
        /\ res.query => Len(queries) < MaxQueries
        /\ networks' = res.networks
        /\ queries' = IF res.query
                      THEN Append(queries, [ctx |-> 0, freed |-> FALSE,
                                            address |-> address])
                      ELSE queries
        /\ last' = Event("resolve", address, IF res.callback THEN 1 ELSE 0)
        /\ UNCHANGED <<retries, ctxs, requests, multi, multi_gm, host, wire>>
        /\ UNCHANGED <<fails, used, stream>>

\* srv_resolved for a pending lookup that succeeded.
ResolveDone ==
    \E i \in 1..Len(queries), targets \in SrvAnswers :
        /\ networks' = NetworkSrvResolved(networks, queries[i].address, targets)
        /\ queries' = RemoveAt(queries, i)
        /\ last' = Event("srv_resolved", queries[i].address, 0)
        /\ UNCHANGED <<retries, ctxs, requests, multi, multi_gm, host, wire>>
        /\ UNCHANGED <<fails, used, stream>>

\* srv_resolved for a pending lookup that failed: robustsession_connect
\* starts the lookup again.
ResolveError ==
    \E i \in 1..Len(queries) :
        LET res == RobustsessionNetworkResolve(networks, queries[i].address) IN
        /\ networks' = res.networks
        /\ queries' = IF res.query
                      THEN Append(RemoveAt(queries, i), queries[i])
                      ELSE RemoveAt(queries, i)
        /\ last' = Event("srv_error", queries[i].address, IF res.callback THEN 1 ELSE 0)
        /\ UNCHANGED <<retries, ctxs, requests, multi, multi_gm, host, wire>>
        /\ UNCHANGED <<fails, used, stream>>

\* A pick for any address; on a network whose queue is empty the pick reads
\* through the NULL that g_queue_pop_nth returns and the program ends.
ResolvePick ==
    \E address \in Addresses, random \in BOOLEAN : ProbePick(address, random, retries)

ResolveNext ==
    \/ ResolveCall
    \/ ResolveDone
    \/ ResolveError
    \/ ResolvePick
    \/ NetRetryFire
    \/ (NetKey \in DOMAIN networks /\ NetFailed)
    \/ NetTickNext

SpecResolve == ResolveInit /\ [][ResolveNext]_vars

(***************************************************************************)
(* The session engine: the steps of the host, the resolver, the servers    *)
(* and the clock.                                                          *)
(***************************************************************************)

\* The state of the program as the operations above take it.
World ==
    [networks |-> networks, retries |-> retries, ctxs |-> ctxs,
     requests |-> requests, multi |-> multi, multi_gm |-> multi_gm,
     queries |-> queries, host |-> host]

Apply(w) ==
    /\ networks' = w.networks
    /\ retries' = w.retries
    /\ ctxs' = w.ctxs
    /\ requests' = w.requests
    /\ multi' = w.multi
    /\ multi_gm' = w.multi_gm
    /\ queries' = w.queries
    /\ host' = w.host

Holds(w) ==
    /\ networks = w.networks
    /\ retries = w.retries
    /\ ctxs = w.ctxs
    /\ requests = w.requests
    /\ multi = w.multi
    /\ multi_gm = w.multi_gm
    /\ queries = w.queries
    /\ host = w.host

\* A step to the state w, within the bounds of the model.
Step(w) ==
    /\ Len(w.retries) <= MaxRetries
    /\ Len(w.ctxs) <= MaxCtx
    /\ Apply(w)

\* The state before anything was connected.
NoSession ==
    [networks |-> EmptyTable, retries |-> <<>>, ctxs |-> <<>>,
     requests |-> EmptyTable, multi |-> <<>>, multi_gm |-> <<>>,
     queries |-> <<>>, host |-> HostInit]

\* What a completed transfer reports: the CURLcode and the response code.
Outcome(result, http_code) == [result |-> result, http_code |-> http_code]

Outcomes ==
    {Outcome("CURLE_OK", 200), Outcome("CURLE_OK", 204), Outcome("CURLE_OK", 403),
     Outcome("CURLE_OK", 503), Outcome("CURLE_COULDNT_CONNECT", 0)}

\* The completion o of request rq makes check_multi_info call failed().
Fails(rq, o) ==
    o.result # "CURLE_OK" \/ o.http_code # 200 \/ rq.type = "GetMessages"

\* The exponent target t holds in the registry (0: no entry).
ExponentOf(t) ==
    IF NetKey \in DOMAIN networks /\ t \in DOMAIN networks[NetKey].backoff
    THEN networks[NetKey].backoff[t].exponent ELSE 0

\* The jitter values rand() can give when t fails now.
Jitters(t) ==
    IF NetKey \in DOMAIN networks
    THEN 0..FailedExponent(networks[NetKey], t) ELSE {0}

\* A transfer in curl_handle runs when no earlier transfer to the same
\* target is still running (one connection per host, pipelined in order);
\* a transfer in curl_handle_gm runs on a connection of its own.
Running(r) ==
    /\ ~requests[r].done
    /\ \/ r \in Range(multi_gm)
       \/ \E i \in 1..Len(multi) :
            /\ multi[i] = r
            /\ \A k \in 1..(i - 1) :
                requests[multi[k]].target = requests[r].target
                    => requests[multi[k]].done

\* The transfer of request r ends with outcome o and check_multi_info handles
\* it.  A PostMessage the server answered with 2xx has reached it.
CompleteStep(maxfails, r, o) ==
    \E body \in BOOLEAN :
        /\ Running(r)
        /\ Fails(requests[r], o) => ExponentOf(requests[r].target) < maxfails
        /\ body = FALSE =>
            (requests[r].type = "CreateSession" /\ o = Outcome("CURLE_OK", 200))
        /\ \E jitter \in Jitters(requests[r].target) :
            /\ Fails(requests[r], o) \/ jitter = 0
            /\ Step(CheckMultiInfo(World, r, o.result, o.http_code, body, jitter))
        /\ wire' = IF requests[r].type = "PostMessage" /\ o.result = "CURLE_OK"
                      /\ o.http_code \in {200, 204}
                   THEN Append(wire, requests[r].line) ELSE wire

\* A transfer ends.
Complete(maxfails, outcomes) ==
    \E r \in DOMAIN requests, o \in outcomes :
        CompleteStep(maxfails, r, o) /\ UNCHANGED histVars

\* robustsession_network_server_retry_cb for the waiting pick retries[i].
RetryFireStep(i) ==
    /\ retries[i].wait = 0
    /\ Step(RobustsessionNetworkServer(
                [World EXCEPT !.retries = RemoveAt(@, i)],
                retries[i].address, retries[i].random, retries[i].cancellable,
                retries[i].callback, retries[i].userdata))
    /\ UNCHANGED wire

\* A waiting pick is run again.
RetryFire ==
    \E i \in 1..Len(retries) :
        RetryFireStep(i) /\ UNCHANGED <<last, fails, used, stream>>

\* get_messages_timeout for request r, whose idle timer ran out.
IdleTimeoutStep(maxfails, r) ==
    /\ requests[r].timeout_tag = 0
    /\ ExponentOf(requests[r].target) < maxfails
    /\ \E jitter \in Jitters(requests[r].target) :
        Step(GetMessagesTimeout(World, r, jitter))
    /\ UNCHANGED wire

\* The idle timer of a GetMessages request runs out.
IdleTimeoutFire(maxfails) ==
    \E r \in DOMAIN requests :
        IdleTimeoutStep(maxfails, r) /\ UNCHANGED <<last, fails, used, stream>>

\* Time passes until the next instant a backoff entry or a timer waits for.
Tick ==
    /\ Deadlines \ {0, NoTimer} # {}
    /\ Elapse(SetMin(Deadlines \ {0, NoTimer}))
    /\ UNCHANGED last

(***************************************************************************)
(* The reader on its own: one session whose GetMessages stream is fed one  *)
(* yajl callback at a time, ends and is retried, or falls silent.          *)
(***************************************************************************)
\* The frames of the stream follow the schema of the protocol: an object
\* with the fields Id and Session (objects with the integer fields Id and
\* Reply), Type (an integer) and Data (a string), each of them present or
\* not, in any order.  Type 0 stands for every type that is neither
\* RobustircToClient nor RobustPing.
FrameKeys == {"Id", "Session", "Type", "Data"}
IdKeys == {"Id", "Reply"}
TypeInts == {0, RobustircToClient, RobustPing}
IdInts == {0, 4}
DataStrings == {"x"}

\* The callbacks a well-formed stream of such frames can cause next.
NextTokens(rq) ==
    LET p == rq.parser
        top == IF p.stack = <<>> THEN Null ELSE p.stack[Len(p.stack)].kind
    IN  CASE top = Null -> {Token("start_map", Null, 0, Null)}
          [] top = "start_map" /\ p.key = Null ->
                {Token("end_map", Null, 0, Null)}
                \cup {Token("map_key", k, 0, Null) :
                         k \in IF Len(p.stack) = 1 THEN FrameKeys ELSE IdKeys}
          [] Len(p.stack) = 2 -> {Token("integer", Null, i, Null) : i \in IdInts}
          [] p.key \in {"Id", "Session"} -> {Token("start_map", Null, 0, Null)}
          [] p.key = "Type" -> {Token("integer", Null, i, Null) : i \in TypeInts}
          [] p.key = "Data" -> {Token("string", Null, 0, s) : s \in DataStrings}

\* The ids a frame carries itself: Id.Id and Id.Reply of the top-level
\* object being read, 0 where it has none (so far, or at all).
StreamRead(s, p, tok) ==
    IF tok.cb = "start_map" /\ p.stack = <<>> THEN [s EXCEPT !.own = <<0, 0>>]
    ELSE IF /\ tok.cb = "integer"
            /\ Len(p.stack) = 2
            /\ p.stack[2] = [kind |-> "start_map", key |-> "Id"]
    THEN [s EXCEPT !.own[IF p.key = "Id" THEN 1 ELSE 2] = tok.int]
    ELSE s

\* The step from state w to state v dispatched a line: only a dispatch takes
\* request->data of a request from a string back to NULL.
Dispatched(w, v) ==
    \E r \in (DOMAIN w.requests) \cap (DOMAIN v.requests) :
        w.requests[r].data # Null /\ v.requests[r].data = Null

\* The state once the host w has an Established session: connected, resolved
\* to the servers targets, CreateSession answered, GetMessages launched.
Established(w, targets) ==
    CheckMultiInfo(
        SrvResolved([RobustsessionConnect(w) EXCEPT !.host.ctx = 1],
                    1, targets, TRUE),
        1, "CURLE_OK", 200, TRUE, 0)

ReaderInit ==
    /\ Holds(Established(NoSession, <<"a:1">>))
    /\ wire = <<>>
    /\ InitHist

\* yajl runs one callback of the stream of a running GetMessages request.
ReaderToken ==
    \E r \in Range(multi_gm) :
        /\ ~requests[r].done
        /\ \E tok \in NextTokens(requests[r]) :
            LET w == GmWriteFunc(World, r, <<tok>>)
                s == StreamRead(stream, requests[r].parser, tok)
            IN  /\ Apply(w)
                /\ stream' = IF Dispatched(World, w)
                              THEN [own |-> <<0, 0>>, dispatched |-> TRUE, id |-> s.own]
                              ELSE IF w.requests[r].parser.stack = <<>>
                              THEN [s EXCEPT !.own = <<0, 0>>]
                              ELSE s
        /\ UNCHANGED <<wire, last, fails, used>>

ReaderNext ==
    ReaderToken \/ Complete(MaxNetFails, {Outcome("CURLE_OK", 200)}) \/ RetryFire \/ IdleTimeoutFire(MaxNetFails) \/ Tick

SpecReader == ReaderInit /\ [][ReaderNext]_vars

(***************************************************************************)
(* The whole engine: a host that connects once, sends, goes write-only and *)
(* destroys its session; a resolver; servers that answer, fail and stream. *)
(***************************************************************************)

\* The tokens of one frame {"Id":{"Id":..,"Reply":..},"Type":..,"Data":..,
\* "Servers":[..]}.
JsonFrame(id, type, data, servers) ==
    <<Token("start_map", Null, 0, Null),
      Token("map_key", "Id", 0, Null), Token("start_map", Null, 0, Null),
      Token("map_key", "Id", 0, Null), Token("integer", Null, id[1], Null),
      Token("map_key", "Reply", 0, Null), Token("integer", Null, id[2], Null),
      Token("end_map", Null, 0, Null),
      Token("map_key", "Type", 0, Null), Token("integer", Null, type, Null),
      Token("map_key", "Data", 0, Null), Token("string", Null, 0, data),
      Token("map_key", "Servers", 0, Null), Token("start_array", Null, 0, Null)>>
    \o [i \in 1..Len(servers) |-> Token("string", Null, 0, servers[i])]
    \o <<Token("end_array", Null, 0, Null), Token("end_map", Null, 0, Null)>>

\* The frames a server streams: a line for the client, and a RobustPing.
Frames ==
    {JsonFrame(<<4, 0>>, RobustircToClient, "x", <<>>),
     JsonFrame(<<0, 0>>, RobustPing, "", <<"b:1", "a:1">>)}

\* The answers of the resolver: no answer (err != NULL), or two servers.
Resolutions == {<<>>, <<"a:1", "b:1">>}

Init ==
    /\ Holds(NoSession)
    /\ wire = <<>>
    /\ InitHist

\* The host connects: robustsession_connect(server), whose result it keeps.
HostConnect ==
    /\ host.ctx = 0
    /\ Step([RobustsessionConnect(World) EXCEPT !.host.ctx = Len(ctxs) + 1])
    /\ UNCHANGED <<wire, last, fails, used, stream>>

\* An SRV lookup ends and srv_resolved runs.
Resolved ==
    \E i \in 1..Len(queries), targets \in Resolutions, stale \in BOOLEAN :
        /\ queries[i].freed => targets = <<>>
        /\ ~queries[i].freed => stale
        /\ Step(SrvResolved(World, i, targets, stale))
        /\ UNCHANGED <<wire, last, fails, used, stream>>

\* The host submits its next line: it writes it to the channel.  rands are
\* the values rand() may have in store.
HostSendStep(max, rands) ==
    /\ host.ctx # 0
    /\ ~host.destroyed
    /\ host.sent < max
    /\ \E rand \in rands :
        Step(RobustIoWrite([World EXCEPT !.host.sent = @ + 1],
                           host.ctx, host.sent + 1, rand))
    /\ UNCHANGED wire

HostSend(max) == HostSendStep(max, {0}) /\ UNCHANGED <<last, fails, used, stream>>

\* The host calls robustsession_write_only(ctx).
HostWriteOnly ==
    /\ host.ctx # 0
    /\ ~host.destroyed
    /\ ~host.write_only
    /\ Step(RobustsessionWriteOnly([World EXCEPT !.host.write_only = TRUE],
                                   host.ctx))
    /\ UNCHANGED <<wire, last, fails, used, stream>>

\* The host closes the channel, which destroys the session.
HostDestroy ==
    /\ host.ctx # 0
    /\ ~host.destroyed
    /\ Step(RobustIoClose([World EXCEPT !.host.destroyed = TRUE], host.ctx))
    /\ UNCHANGED <<wire, last, fails, used, stream>>

\* The frame arrives on the running GetMessages request r: gm_write_func.
FrameArrivesStep(r, frame) ==
    /\ ~requests[r].done
    /\ Step(GmWriteFunc(World, r, frame))
    /\ UNCHANGED wire

\* A frame arrives on a running GetMessages request.
FrameArrives(frames) ==
    \E r \in Range(multi_gm), frame \in frames :
        FrameArrivesStep(r, frame) /\ UNCHANGED <<last, fails, used, stream>>

Next ==
    \/ HostConnect
    \/ Resolved
    \/ HostSend(MaxSends)
    \/ HostWriteOnly
    \/ HostDestroy
    \/ FrameArrives(Frames)
    \/ Complete(MaxNetFails, Outcomes)
    \/ RetryFire
    \/ IdleTimeoutFire(MaxNetFails)
    \/ Tick

Spec == Init /\ [][Next]_vars

(***************************************************************************)
(* Sending on its own: an Established session with two servers whose host  *)
(* submits lines 1, 2, ... in this order; the stream carries IRC lines.    *)
(***************************************************************************)
SendInit ==
    /\ Holds(Established(NoSession, <<"a:1", "b:1">>))
    /\ wire = <<>>
    /\ InitHist

SendNext ==
    \/ HostSend(MaxLines)
    \/ FrameArrives({JsonFrame(<<4, 0>>, RobustircToClient, "x", <<>>)})
    \/ Complete(MaxNetFails, Outcomes)
    \/ RetryFire
    \/ IdleTimeoutFire(MaxNetFails)
    \/ Tick

SpecSend == SendInit /\ [][SendNext]_vars

(***************************************************************************)
(* Shutdown by write-only: a watched host that connects, sends and makes   *)
(* its session write-only without destroying it; the stream carries IRC   *)
(* lines.                                                                  *)
(***************************************************************************)
WriteOnlyInit ==
    /\ Holds([NoSession EXCEPT !.host.watch = TRUE])
    /\ wire = <<>>
    /\ InitHist

WriteOnlyNext ==
    \/ HostConnect
    \/ Resolved
    \/ HostSend(MaxSends)
    \/ HostWriteOnly
    \/ FrameArrives({JsonFrame(<<4, 0>>, RobustircToClient, "x", <<>>)})
    \/ Complete(MaxNetFails, Outcomes)
    \/ RetryFire
    \/ IdleTimeoutFire(MaxNetFails)
    \/ Tick

SpecWriteOnly == WriteOnlyInit /\ [][WriteOnlyNext]_vars

(***************************************************************************)
(* Retries: an Established session with two servers whose host submits a   *)
(* line, while requests fail and are reissued at once or after a backoff.  *)
(* Every step records in last what was done: for a completion its class,   *)
(* the target the request was on and the request; for a timer the target   *)
(* the request it reissues was on, or the line of the send it delivers.    *)
(* The host keeps the URLs of the GetMessages requests.                    *)
(***************************************************************************)
\* Transport errors and HTTP 5xx.
Temporary(o) == o.result # "CURLE_OK" \/ (o.http_code >= 500 /\ o.http_code < 600)

RetryInit ==
    /\ Holds(Established([NoSession EXCEPT !.host.urls = TRUE], <<"a:1", "b:1">>))
    /\ wire = <<>>
    /\ InitHist

RetrySend ==
    /\ HostSendStep(MaxSends, {0, 1})
    /\ last' = Event("send", NoTarget, host.sent + 1)
    /\ UNCHANGED <<fails, used, stream>>

RetryComplete ==
    \E r \in DOMAIN requests, o \in Outcomes :
        /\ CompleteStep(MaxNetFails, r, o)
        /\ last' = Event(IF Temporary(o) THEN "temporary"
                         ELSE IF o.http_code = 200 THEN "ok" ELSE "permanent",
                         requests[r].target, r)
        /\ UNCHANGED <<fails, used, stream>>

RetryTimer ==
    \E i \in 1..Len(retries) :
        /\ RetryFireStep(i)
        /\ last' = IF retries[i].callback = "retry_request"
                   THEN Event("retry", requests[retries[i].userdata.req].target,
                              retries[i].userdata.req)
                   ELSE Event("timer", NoTarget, retries[i].userdata.line)
        /\ UNCHANGED <<fails, used, stream>>

\* A chunk arrives on the stream: a frame, bytes that are not JSON, or a
\* line frame that turns into such bytes before its closing brace.  last
\* records "garbage" for a chunk the parser rejected.
RetryFrame ==
    \E r \in Range(multi_gm),
       frame \in Frames \cup {<<Token("error", Null, 0, Null)>>,
                              <<Token("start_map", Null, 0, Null),
                                Token("map_key", "Data", 0, Null),
                                Token("string", Null, 0, "x"),
                                Token("map_key", "Type", 0, Null),
                                Token("integer", Null, RobustircToClient, Null),
                                Token("error", Null, 0, Null)>>} :
        /\ FrameArrivesStep(r, frame)
        /\ last' = Event(IF requests'[r].parser.stack = <<>>
                         THEN "frame" ELSE "garbage", requests[r].target, r)
        /\ UNCHANGED <<fails, used, stream>>

RetryIdle ==
    \E r \in DOMAIN requests :
        /\ IdleTimeoutStep(MaxNetFails, r)
        /\ last' = Event("idle", requests[r].target, r)
        /\ UNCHANGED <<fails, used, stream>>

RetryTick ==
    /\ Deadlines \ {0, NoTimer} # {}
    /\ ElapseStep(SetMin(Deadlines \ {0, NoTimer}))
    /\ last' = Event("tick", NoTarget, 0)
    /\ UNCHANGED <<fails, used, stream>>

RetryNext ==
    \/ RetrySend
    \/ RetryComplete
    \/ RetryTimer
    \/ RetryFrame
    \/ RetryIdle
    \/ RetryTick

SpecRetry == RetryInit /\ [][RetryNext]_vars

\* The same without the frames of the stream, and with the clock running:
\* time passes whenever no timer is due.
IssueNext ==
    \/ RetrySend
    \/ RetryComplete
    \/ RetryTimer
    \/ RetryIdle
    \/ RetryTick

SpecIssue == RetryInit /\ [][IssueNext]_vars /\ WF_vars(RetryTick)

(***************************************************************************)
(* Two sessions of one address: the host connects twice to Address, the    *)
(* resolver answers each lookup, requests complete, timers fire and time   *)
(* passes.  Both sessions use the one registry entry of the address.  The  *)
(* host record is that of the first session.  last records each step: for  *)
(* a connect the session it allocated, for a resolver answer the session   *)
(* of the lookup, for the other steps what the retry steps record.         *)
(***************************************************************************)
SharedConnect ==
    /\ Len(ctxs) < MaxCtx
    /\ Step([RobustsessionConnect(World) EXCEPT
                !.host.ctx = IF host.ctx = 0 THEN Len(ctxs) + 1 ELSE @])
    /\ last' = Event("connect", NoTarget, Len(ctxs) + 1)
    /\ UNCHANGED <<wire, fails, used, stream>>

SharedResolved ==
    \E i \in 1..Len(queries), targets \in Resolutions \ {<<>>} :
        /\ Step(SrvResolved(World, i, targets, TRUE))
        /\ last' = Event("srv_resolved", NoTarget, queries[i].ctx)
        /\ UNCHANGED <<wire, fails, used, stream>>

SharedNext ==
    \/ SharedConnect
    \/ SharedResolved
    \/ RetryComplete
    \/ RetryTimer
    \/ RetryIdle
    \/ RetryTick

SpecShared == Init /\ [][SharedNext]_vars
(***************************************************************************)
(* Claims about the network registry.                                      *)
(***************************************************************************)

Net == networks[NetKey]

Min2(a, b) == IF a < b THEN a ELSE b

\* C7: a pick never hands its callback a target whose backoff entry has
\* next_attempt > now: the delivered target has no entry or one with
\* next_attempt <= now, and after the delivery it is the head of the queue.
\* This holds for picks answered at once and for re-picks run by the timer.
C7_PickDeliversUsableAtHead ==
    (last.op = "pick" /\ last.target # NoTarget) =>
        /\ Usable(Net, last.target)
        /\ Net.servers # <<>>
        /\ Head(Net.servers) = last.target

\* A pick skipped a server in backoff and delivered one behind it in the
\* queue, whose own backoff entry had run out.
C7_Witness ==
    /\ last.op = "pick"
    /\ last.target \in DOMAIN Net.backoff
    /\ \E i \in 2..Len(Net.servers) : ~Usable(Net, Net.servers[i])

\* C8: after k >= 1 calls of failed(addr, t) in a row with no succeeded(addr, t)
\* in between, t's entry has exponent min(k, 6), and right after the last call
\* next_attempt - now lies in [2^min(k,6), 2^min(k,6) + min(k,6)]; no entry
\* ever has an exponent above 6.
C8_ExponentAndDelay ==
    /\ \A t \in DOMAIN Net.backoff : Net.backoff[t].exponent <= 6
    /\ \A t \in Targets :
        fails[t] >= 1 =>
            /\ t \in DOMAIN Net.backoff
            /\ Net.backoff[t].exponent = Min2(fails[t], 6)
    /\ last.op = "failed" =>
        LET e == Min2(fails[last.target], 6)
            wait == Net.backoff[last.target].next - TimeNow
        IN  Pow2(e) <= wait /\ wait <= Pow2(e) + e

\* failed() was just called on a target for the eighth time in a row.
C8_Witness ==
    /\ last.op = "failed"
    /\ fails[last.target] = 8
    /\ Net.backoff[last.target].exponent = 6

\* C9: succeeded(addr, t) removes t's backoff entry whatever its exponent was:
\* right after it t is usable, a pick on a queue that holds t delivers a target
\* at once (t itself when every other server is in backoff), and a failed(addr, t)
\* that follows gives t the exponent 1.
C9_SucceededClearsBackoff ==
    /\ [](last.op = "succeeded" =>
            /\ last.target \notin DOMAIN Net.backoff
            /\ Usable(Net, last.target)
            /\ last.target \in Range(Net.servers) =>
                /\ NetworkServer(Net).target # NoTarget
                /\ (\A s \in Range(Net.servers) \ {last.target} : ~Usable(Net, s))
                        => NetworkServer(Net).target = last.target)
    /\ [][(last.op = "succeeded" /\ last'.op = "failed" /\ last'.target = last.target)
            => Net'.backoff[last.target].exponent = 1]_vars

\* succeeded() just removed an entry of exponent 6 while the other server of
\* the queue is in backoff.
C9_Witness ==
    /\ last.op = "succeeded"
    /\ last.num = 6
    /\ last.target \in Range(Net.servers)
    /\ \E s \in Range(Net.servers) : ~Usable(Net, s)

\* C10: update_targets with a list that holds the queue's servers (compared
\* without regard to case), in any order, changes neither the queue nor its
\* order nor any backoff entry, so later picks deliver what they would have
\* delivered without the call.
C10_SetEqualUpdateIsNoOp ==
    \A l \in ServerLists :
        SetEqualCI(l, Net.servers) =>
            /\ NetworkUpdateServers(Net, l) = Net
            /\ NetworkServer(NetworkUpdateServers(Net, l)) = NetworkServer(Net)

\* An update has just been made with the queue's two servers in another
\* order or case, while a server is in backoff.
C10_Witness ==
    /\ last.op = "update"
    /\ last.num = 1
    /\ Len(Net.servers) = 2
    /\ DOMAIN Net.backoff # {}


\* C11: update_targets with a list that is not set-equal to the queue (a
\* server added, a server removed, or both) replaces the queue with that
\* list; a list that only drops a server of the queue takes effect too.
C11_DifferentSetReplaces ==
    \A l \in ServerLists \ {<<>>} :
        ~SetEqualCI(l, Net.servers) => NetworkUpdateServers(Net, l).servers = l

\* C12: whenever a network entry exists in the registry its target list is
\* not empty, after any sequence of resolves (SRV answers and comma-separated
\* overrides such as "," or "a:1,"), updates and picks.
C12_TargetsNeverEmpty == \A k \in DOMAIN networks : networks[k].servers # <<>>

\* C13: the targets that have a backoff entry are always among the targets
\* of the network's queue, after any sequence of failed, succeeded, updates
\* and completions of requests on targets picked earlier.
C13_BackoffKeysAreTargets ==
    \A k \in DOMAIN networks :
        DOMAIN networks[k].backoff \subseteq Range(networks[k].servers)

\* C14: once a network entry exists for an address (compared without regard
\* to case), a further resolve of that address, also one that was started
\* while an earlier lookup was pending or that writes the address in another
\* case, leaves the entry's queue and backoff table as they are.
C14_ResolveFirstWins ==
    [][last'.op \in {"resolve", "srv_resolved", "srv_error"} =>
          \A k \in DOMAIN networks :
              k \in DOMAIN networks' /\ networks'[k] = networks[k]]_vars

\* C26: for a network with several targets that are all usable, a pick with
\* random = TRUE can deliver any of them, not only the head of the queue.
C26_RandomPickReachesAnyTarget ==
    (/\ Len(Net.servers) > 1
     /\ \A s \in Range(Net.servers) : Usable(Net, s)) =>
        \A t \in Range(Net.servers) :
            ENABLED (ProbePick(Address, TRUE, retries) /\ last'.target = t)

\* C28: when every target of the network is in backoff, a pick returns true
\* without handing any target to its callback and leaves exactly one re-pick
\* waiting for the smallest next - now over the targets; a pick that does hand
\* a target to its callback hands one that was out of backoff when the pick ran.
C28_AllInBackoffDefersToSoonest ==
    [][/\ (/\ last'.op = "pick"
           /\ \A s \in Range(Net.servers) : ~Usable(Net, s)) =>
             /\ NetworkServer(Net).ret
             /\ last'.target = NoTarget
             /\ used' = used
             /\ retries' # <<>>
             /\ retries'[Len(retries')].wait =
                    SetMin({Net.backoff[s].next - TimeNow : s \in Range(Net.servers)})
             /\ retries'[Len(retries')].wait > 0
             /\ \/ SubSeq(retries', 1, Len(retries') - 1) = retries
                \/ \E i \in 1..Len(retries) :
                      /\ retries[i].wait = 0
                      /\ SubSeq(retries', 1, Len(retries') - 1) = RemoveAt(retries, i)
       /\ (last'.op = "pick" /\ last'.target # NoTarget) =>
             /\ Usable(Net, last'.target)
             /\ Len(retries') <= Len(retries)]_vars

C28_Witness ==
    /\ last.op = "pick"
    /\ last.target = NoTarget
    /\ retries # <<>>
    /\ retries[Len(retries)].wait = last.num
    /\ \E s, t \in Range(Net.servers) :
          /\ Net.backoff[s].next - TimeNow = last.num
          /\ Net.backoff[t].next - TimeNow > last.num

(***************************************************************************)
(* Claims about the GetMessages reader.                                    *)
(***************************************************************************)

\* The cursor of the host's session.
LastSeen == ctxs[host.ctx].lastseen

\* The cursor a does not lie behind the cursor b: ids first, then replies.
CursorLeq(a, b) == a[1] < b[1] \/ (a[1] = b[1] /\ a[2] <= b[2])

\* C4: whatever frames arrive, and through retries and relaunches, last_seen
\* never decreases from one state of the session to the next.
C4_LastSeenNeverDecreases ==
    [][\A c \in DOMAIN ctxs : CursorLeq(ctxs[c].lastseen, ctxs'[c].lastseen)]_vars

\* C5: last_seen is "0.0" as long as no frame of type 3 was dispatched, and
\* from then on the Id.Id and Id.Reply that the most recently dispatched
\* frame carries itself (0 for a field it does not carry), never a value an
\* earlier frame left behind.
C5_LastSeenIsOwnId ==
    LastSeen = IF stream.dispatched THEN stream.id ELSE <<0, 0>>

\* C6: when a frame of type 3 is dispatched, the line is emitted before the
\* cursor is advanced: the host, looking at the cursor while it is given the
\* line, sees the value the cursor had before this frame (what the dispatch
\* before it left there, "0.0" for the first), not the id of this frame.
C6_EmittedBeforeAdvanced ==
    [][\A r \in (DOMAIN requests) \cap (DOMAIN requests') :
          (requests[r].data # Null /\ requests'[r].data = Null) =>
              /\ host'.incoming.data = requests[r].data
              /\ host'.incoming.seen = ctxs[requests[r].ctx].lastseen
              /\ ctxs'[requests[r].ctx].lastseen =
                    <<requests'[r].last_id_id, requests'[r].last_id_reply>>]_vars

\* A line has been emitted while the cursor still held an older value, and
\* the cursor then moved on to the id of the frame.
C6_Witness ==
    /\ host.incoming.data # Null
    /\ stream.dispatched
    /\ host.incoming.seen # LastSeen
    /\ LastSeen = <<4, 4>>

\* C33: a GetMessages request that is reissued after its stream was cut
\* inside a JSON object starts over at depth 0: the depth the reader counts
\* is the number of objects its parser has open, and a step that closes a
\* top-level object holding a line of type 3 dispatches that line.
C33_RetriedReaderRestartsAtDepthZero ==
    /\ [](\A r \in Range(multi_gm) :
            requests[r].depth =
                Cardinality({i \in 1..Len(requests[r].parser.stack) :
                                requests[r].parser.stack[i].kind = "start_map"}))
    /\ [][\A r \in (DOMAIN requests) \cap (DOMAIN requests') :
            (/\ Len(requests[r].parser.stack) = 1
             /\ requests'[r].parser.stack = <<>>
             /\ requests'[r].depth = requests[r].depth - 1
             /\ requests[r].data # Null
             /\ requests[r].last_type = RobustircToClient) =>
                /\ requests'[r].data = Null
                /\ host'.incoming.data = requests[r].data]_vars

(***************************************************************************)
(* Claims about the session engine.                                        *)
(***************************************************************************)

\* The GetMessages requests of session c that are in flight.
InFlightGm(c) ==
    {r \in Range(multi_gm) : requests[r].ctx = c /\ ~requests[r].done}

\* C1: in every reachable state a session has at most one GetMessages
\* request in flight, across retries, idle-timeout relaunches and the
\* overlap of timers with completions.
C1_OneGetMessagesInFlight ==
    \A c \in DOMAIN ctxs : Cardinality(InFlightGm(c)) <= 1

\* A GetMessages request is in flight that was launched anew after the idle
\* timeout: it has read nothing, yet the cursor has moved already; the line
\* of the host is in flight too.
C1_Witness ==
    \E r \in InFlightGm(host.ctx) :
        /\ requests[r].last_key = Null
        /\ LastSeen # <<0, 0>>
        /\ multi # <<>>

\* C2: when the host submits line x and then line y on one session, x reaches
\* the server before y, in every run: the lines the servers have accepted
\* are in the order of their submission.
C2_SendOrderPreserved ==
    \A i, j \in 1..Len(wire) : i < j => wire[i] < wire[j]

\* C3: after robustsession_destroy(session) the host is told nothing more
\* about that session, whatever was in flight, waiting on a backoff timer or
\* being resolved when it was destroyed.
C3_NoCallbackAfterDestroy == host.late = {}

\* C15: when the host closes the channel right after it sent a line, the
\* PostMessage of that line, already in flight, is left to complete (the close
\* does not abort it), the GetMessages request in flight is cancelled at
\* once, and no further "server incoming" is emitted.
C15_QuitPostSurvivesClose ==
    /\ []("incoming" \notin host.late)
    /\ [][(~host.destroyed /\ host'.destroyed) =>
            /\ \A r \in Range(multi) :
                  (requests[r].ctx = host.ctx /\ requests[r].type = "PostMessage"
                      /\ ~requests[r].done)
                  => (r \in Range(multi') /\ r \in DOMAIN requests')
            /\ \A r \in Range(multi_gm') : requests'[r].ctx # host.ctx]_vars

\* C16: after write_only(session) no callback of the session touches the
\* host again and no GetMessages request of the session is in flight or is
\* launched again; this covers requests that were waiting on a backoff
\* re-pick and sends whose pick was deferred when write_only was called.
\* It is stated for a host whose session is the only one ever allocated, so
\* that whatever touches the host is a callback of that session.
C16_WriteOnlyIsQuiet ==
    (host.write_only /\ Len(ctxs) = 1) =>
        (host.touched = {} /\ InFlightGm(host.ctx) = {})

\* C17: every reissue of a PostMessage after a temporary failure carries the
\* body of its first attempt, hence the same Data and ClientMessageId, and
\* the same url_suffix: as long as the request lives only its target changes.
C17_ReissueKeepsBody ==
    [][\A r \in (DOMAIN requests) \cap (DOMAIN requests') :
          (requests[r].type = "PostMessage" /\ requests'[r].type = "PostMessage") =>
              /\ requests'[r].postfields = requests[r].postfields
              /\ requests'[r].url_suffix = requests[r].url_suffix
              /\ requests'[r].line = requests[r].line]_vars

\* A PostMessage whose ClientMessageId was drawn with rand() = 1 has just
\* failed temporarily and is in flight again, on another target.
C17_Witness ==
    /\ last.op \in {"temporary", "retry"}
    /\ last.num \in Range(multi)
    /\ requests[last.num].type = "PostMessage"
    /\ requests[last.num].target # last.target
    /\ requests[last.num].postfields = PostFields(1, GStrHash(1) + 1)

\* C20: when a request of any kind completes with a transport error or an
\* HTTP 5xx status, failed(address, target) is recorded for its target, a new
\* target is picked and the same request (same url_suffix) is reissued on it,
\* at once or when the pick's backoff timer fires; the session is not closed
\* and connection_lost is not set.  Stated for every completion of this
\* class that check_multi_info can be given in a reachable state.
C20_TemporaryFailureIsRetried ==
    \A r \in DOMAIN requests, o \in {x \in Outcomes : Temporary(x)} :
        Running(r) =>
            \A jitter \in Jitters(requests[r].target) :
                LET rq == requests[r]
                    v == CheckMultiInfo(World, r, o.result, o.http_code, TRUE, jitter)
                    n == v.networks[NetKey]
                IN  /\ rq.target \in DOMAIN n.backoff
                    /\ n.backoff[rq.target].exponent = FailedExponent(Net, rq.target)
                    /\ r \in DOMAIN v.requests
                    /\ v.requests[r].type = rq.type
                    /\ v.requests[r].url_suffix = rq.url_suffix
                    /\ ~v.requests[r].done
                    /\ \/ /\ r \in Range(v.multi) \cup Range(v.multi_gm)
                          /\ v.requests[r].target = Head(n.servers)
                          /\ Usable(n, v.requests[r].target)
                       \/ \E i \in 1..Len(v.retries) :
                            /\ v.retries[i].callback = "retry_request"
                            /\ v.retries[i].userdata.req = r
                    /\ v.host.connection_lost = host.connection_lost

\* C18: backoff state is shared by the sessions of one address: while target
\* t holds a backoff entry whose next_attempt has not passed (a request
\* failed on it and no succeeded(t) was recorded since), a pick made for a
\* session of the address (by its connect or by the resolver's answer to its
\* lookup) does not deliver t: the step starts no request on t.
C18_BackoffSharedBySessions ==
    [][last'.op \in {"connect", "srv_resolved"} =>
          \A r \in (DOMAIN requests') \ (DOMAIN requests) :
              ~(/\ NetKey \in DOMAIN networks
                /\ ~Usable(networks[NetKey], requests'[r].target))]_vars

\* The POST of line n is in flight.
IssuedLine(n) ==
    \E r \in Range(multi) :
        requests[r].type = "PostMessage" /\ requests[r].line = n

\* A pick for the POST of line n waits on a backoff timer: the pick of the
\* send itself, or the re-pick after a temporary failure of the POST.
WaitingLine(n) ==
    \E i \in 1..Len(retries) :
        \/ /\ retries[i].callback = "robustsession_send_target"
           /\ retries[i].userdata.line = n
        \/ /\ retries[i].callback = "retry_request"
           /\ requests[retries[i].userdata.req].type = "PostMessage"
           /\ requests[retries[i].userdata.req].line = n

\* A glib timer is due and has not been dispatched yet.
TimerDue ==
    \/ \E i \in 1..Len(retries) : retries[i].wait = 0
    \/ \E r \in DOMAIN requests : requests[r].timeout_tag = 0

Listening == [World EXCEPT !.host.listen = TRUE]

\* C21: a request that completes without transport error and with an HTTP
\* status that is neither 2xx nor 5xx sets connection_lost and emits the
\* disconnect, and that request is never reissued: it does not wait for a
\* re-pick, and no later step replaces it by a new request of its kind (same
\* session, url_suffix and line).
C21_PermanentFailureIsFinal ==
    /\ [](\A r \in DOMAIN requests, o \in Outcomes :
            (/\ Running(r)
             /\ o.result = "CURLE_OK"
             /\ o.http_code \notin 200..299 \cup 500..599) =>
                \A jitter \in Jitters(requests[r].target) :
                    LET v == CheckMultiInfo(Listening, r, o.result, o.http_code,
                                            TRUE, jitter)
                    IN  /\ v.host.connection_lost
                        /\ "disconnected" \in Range(v.host.heard)
                        /\ r \in DOMAIN v.requests /\ v.requests[r].done
                        /\ \A i \in 1..Len(v.retries) :
                              v.retries[i].userdata.req # r)
    /\ [][\A r \in DOMAIN requests :
            requests[r].done =>
                /\ \A q \in DOMAIN requests' :
                      (/\ requests'[q].type = requests[r].type
                       /\ requests'[q].ctx = requests[r].ctx
                       /\ requests'[q].url_suffix = requests[r].url_suffix
                       /\ requests'[q].line = requests[r].line
                       /\ ~requests'[q].done)
                      => (q \in DOMAIN requests /\ ~requests[q].done)
                /\ requests[r].type = "GetMessages" =>
                      \A i \in 1..Len(retries') :
                          (/\ retries'[i].callback = "get_messages"
                           /\ retries'[i].userdata.ctx = requests[r].ctx)
                          => \E j \in 1..Len(retries) : retries[j] = retries'[i]]_vars

\* C22: a CreateSession or PostMessage that completes without transport error
\* and with any HTTP 2xx status is a success: succeeded(address, target) is
\* recorded (the target holds no backoff entry afterwards), the request is
\* not retried and the session is not closed.
C22_Any2xxIsSuccess ==
    \A r \in DOMAIN requests, o \in Outcomes :
        (/\ Running(r)
         /\ requests[r].server
         /\ requests[r].type \in {"CreateSession", "PostMessage"}
         /\ o.result = "CURLE_OK"
         /\ o.http_code \in 200..299) =>
            \A jitter \in Jitters(requests[r].target) :
                LET v == CheckMultiInfo(World, r, o.result, o.http_code, TRUE, jitter)
                IN  /\ requests[r].target \notin DOMAIN v.networks[NetKey].backoff
                    /\ \A i \in 1..Len(v.retries) :
                          v.retries[i].callback # "retry_request"
                          \/ v.retries[i].userdata.req # r
                    /\ r \notin Range(v.multi)
                    /\ v.host.connection_lost = host.connection_lost

\* C23: a GetMessages that completes without transport error and with any
\* HTTP 2xx status is a temporary failure: failed is recorded for its target
\* and GetMessages is relaunched on a re-picked target (at once, or when the
\* pick's backoff timer fires); the session is not closed.
C23_GetMessages2xxIsTemporary ==
    \A r \in DOMAIN requests, o \in Outcomes :
        (/\ Running(r)
         /\ requests[r].server
         /\ requests[r].type = "GetMessages"
         /\ o.result = "CURLE_OK"
         /\ o.http_code \in 200..299) =>
            \A jitter \in Jitters(requests[r].target) :
                LET v == CheckMultiInfo(World, r, o.result, o.http_code, TRUE, jitter)
                    n == v.networks[NetKey]
                IN  /\ requests[r].target \in DOMAIN n.backoff
                    /\ n.backoff[requests[r].target].exponent
                           = FailedExponent(Net, requests[r].target)
                    /\ r \in DOMAIN v.requests /\ ~v.requests[r].done
                    /\ \/ /\ r \in Range(v.multi_gm)
                          /\ v.requests[r].target = Head(n.servers)
                          /\ Usable(n, v.requests[r].target)
                       \/ \E i \in 1..Len(v.retries) :
                            /\ v.retries[i].callback = "retry_request"
                            /\ v.retries[i].userdata.req = r
                    /\ v.host.connection_lost = host.connection_lost

\* C24: a CreateSession that returns HTTP 200 with a body that is not valid
\* JSON, or that lacks Sessionid or Sessionauth, is a permanent failure:
\* connection_lost is set and the disconnect is emitted, and the session is
\* not left with no request outstanding and nothing waiting.
C24_BadSessionBodyIsPermanent ==
    \A r \in DOMAIN requests :
        (/\ Running(r)
         /\ requests[r].server
         /\ requests[r].type = "CreateSession") =>
            LET v == CheckMultiInfo(Listening, r, "CURLE_OK", 200, FALSE, 0)
            IN  /\ v.host.connection_lost
                /\ "disconnected" \in Range(v.host.heard)

\* C25: every retry of the engine emits an error_retry line to the host in
\* the handler that reissues: the reissue of a request after a temporary
\* completion (at once or by its backoff timer), the relaunch of GetMessages
\* after an idle timeout, and the re-resolution after a resolver failure.
C25_EveryRetryIsReported ==
    /\ \A r \in DOMAIN requests, o \in Outcomes :
          (Running(r) /\ requests[r].server /\ Temporary(o)) =>
              \A jitter \in Jitters(requests[r].target) :
                  LET v == CheckMultiInfo(Listening, r, o.result, o.http_code,
                                          TRUE, jitter)
                  IN  r \in Range(v.multi) \cup Range(v.multi_gm)
                          => "error_retry" \in Range(v.host.heard)
    /\ \A i \in 1..Len(retries) :
          (retries[i].wait = 0 /\ retries[i].callback = "retry_request") =>
              LET v == RobustsessionNetworkServer(
                           [Listening EXCEPT !.retries = RemoveAt(@, i)],
                           retries[i].address, retries[i].random,
                           retries[i].cancellable, retries[i].callback,
                           retries[i].userdata)
              IN  retries[i].userdata.req \in Range(v.multi) \cup Range(v.multi_gm)
                      => "error_retry" \in Range(v.host.heard)
    /\ \A r \in DOMAIN requests :
          (requests[r].type = "GetMessages" /\ requests[r].timeout_tag = 0) =>
              \A jitter \in Jitters(requests[r].target) :
                  "error_retry" \in Range(GetMessagesTimeout(Listening, r, jitter).host.heard)
    /\ \A i \in 1..Len(queries) :
          ~queries[i].freed =>
              "error_retry" \in Range(SrvResolved(Listening, i, <<>>, TRUE).host.heard)

\* C27: sends are sticky.  While the head of the queue is usable (no
\* expiry-driven rotation is due), a send POSTs to the head, the target the
\* last pick left there, and leaves the queue as it is; and the steps that
\* are no failed call and no replacement of the list (time passing, a send,
\* a successful completion of a CreateSession or PostMessage) keep that head
\* and keep it usable.
C27_SendsAreSticky ==
    [][/\ (last'.op = "send" /\ Usable(Net, Head(Net.servers))) =>
            /\ \E r \in (DOMAIN requests') \ (DOMAIN requests) :
                  /\ requests'[r].type = "PostMessage"
                  /\ requests'[r].target = Head(Net.servers)
                  /\ r \in Range(multi')
            /\ networks' = networks
       /\ (/\ \/ last'.op \in {"send", "tick"}
              \/ /\ last'.op = "ok"
                 /\ requests[last'.num].type # "GetMessages"
           /\ Usable(Net, Head(Net.servers))) =>
            /\ Head(networks'[NetKey].servers) = Head(Net.servers)
            /\ Usable(networks'[NetKey], Head(Net.servers))]_vars

\* A send went to b:1, where an earlier rotation left the head, although
\* a:1 is usable again.
C27_Witness ==
    /\ last.op = "send"
    /\ Head(Net.servers) = "b:1"
    /\ Usable(Net, "a:1")
    /\ \E r \in Range(multi) :
          requests[r].type = "PostMessage" /\ requests[r].target = "b:1"

\* C29: a pick on a resolved network hands a target to its callback exactly
\* once, at once or when its backoff timer fires, as long as the cancel token
\* is not triggered; a pick whose token is triggered, before the pick or
\* while it waits, never runs its callback.  For the pick of a submitted
\* line: the line gets exactly one of a PostMessage request and a waiting
\* re-pick, no re-pick waits on a triggered token, and a pick made with a
\* triggered token creates no request.
C29_PickCallsBackOnceUnlessCancelled ==
    /\ [](/\ \A i \in 1..Len(retries) : ~ctxs[retries[i].cancellable].cancelled
          /\ \A n \in 1..host.sent :
                Cardinality({r \in DOMAIN requests :
                                /\ requests[r].type = "PostMessage"
                                /\ requests[r].line = n})
                + Cardinality({i \in 1..Len(retries) :
                                /\ retries[i].callback = "robustsession_send_target"
                                /\ retries[i].userdata.line = n}) <= 1
          /\ \A c \in 1..Len(ctxs) :
                (ctxs[c].cancelled /\ NetKey \in DOMAIN networks) =>
                    LET w == RobustsessionNetworkServer(World, Address, FALSE, c,
                                 "robustsession_send_target",
                                 [NoData EXCEPT !.ctx = c, !.line = host.sent + 1])
                    IN  /\ DOMAIN w.requests = DOMAIN requests
                        /\ w.retries = retries)
    /\ [][(host.sent' # host.sent /\ NetKey \in DOMAIN networks) =>
            \/ /\ retries' = retries
               /\ \E r \in (DOMAIN requests') \ (DOMAIN requests) :
                     /\ (DOMAIN requests') \ (DOMAIN requests) = {r}
                     /\ requests'[r].type = "PostMessage"
                     /\ requests'[r].line = host.sent'
            \/ /\ DOMAIN requests' = DOMAIN requests
               /\ Len(retries') = Len(retries) + 1
               /\ retries'[Len(retries')].userdata.line = host.sent']_vars

\* C30: when the 60 s timer of a GetMessages request in flight runs out, its
\* target is marked failed, the request is removed and a new GetMessages is
\* launched on the target a fresh pick delivers (or waits for that pick while
\* every target is in backoff); a RobustPing frame sets the timer of its
\* request to 60 s again, no other frame touches it, and time never passes
\* beyond the deadline of a request in flight.
C30_SilentGetMessagesIsRelaunched ==
    [][/\ (/\ last'.op = "idle"
           /\ last'.num \in Range(multi_gm)
           /\ ~requests[last'.num].done) =>
             LET r == last'.num
                 t == requests[r].target
                 n == networks'[NetKey]
             IN  /\ requests[r].timeout_tag = 0
                 /\ t \in DOMAIN n.backoff
                 /\ n.backoff[t].exponent = FailedExponent(Net, t)
                 /\ ~Usable(n, t)
                 /\ \/ /\ retries' = retries
                       /\ \E x \in Range(multi_gm') :
                             /\ x = r \/ x \notin DOMAIN requests
                             /\ x # r => r \notin DOMAIN requests'
                             /\ requests'[x] =
                                   [Request("GetMessages", Head(n.servers),
                                            requests[r].ctx, 0)
                                      EXCEPT !.timeout_tag = IdleTimeout,
                                             !.url_lastseen =
                                                 ctxs[requests[r].ctx].lastseen,
                                             !.url_suffix = requests[r].url_suffix]
                             /\ requests'[x].target # t
                             /\ Usable(n, requests'[x].target)
                    \/ /\ DOMAIN requests' = (DOMAIN requests) \ {r}
                       /\ r \notin Range(multi_gm')
                       /\ Len(retries') = Len(retries) + 1
                       /\ retries'[Len(retries')].callback = "get_messages"
                       /\ retries'[Len(retries')].wait > 0
                       /\ \A s \in Range(n.servers) : ~Usable(n, s)
       /\ last'.op = "frame" =>
             requests'[last'.num].timeout_tag =
                 IF requests'[last'.num].last_type = RobustPing
                 THEN IdleTimeout ELSE requests[last'.num].timeout_tag
       /\ last'.op = "tick" =>
             \A r \in Range(multi_gm) :
                 ~requests[r].done =>
                     /\ requests[r].timeout_tag > 0
                     /\ requests'[r].timeout_tag >= 0
                     /\ requests'[r].timeout_tag < requests[r].timeout_tag]_vars

\* C31: the idle timeout of a GetMessages request counts from the last frame
\* of any type: a frame that arrives while the 60 s timer of its request is
\* still running sets that timer to 60 s again, so a stream whose frames are
\* less than 60 s apart is never torn down by the timer.
C31_AnyFrameRestartsIdleTimer ==
    [][(/\ last'.op = "frame"
        /\ requests[last'.num].timeout_tag \in 1..IdleTimeout) =>
            requests'[last'.num].timeout_tag = IdleTimeout]_vars

\* C32: a complete top-level frame is given to the host as a line exactly
\* when the frame itself carries Type 3 and a non-empty Data; any other
\* frame emits no line and leaves last_seen alone, whatever frames the
\* request has read before.  type -1 stands for a frame without the key
\* Type, data Null for a frame without the key Data.
C32_FrameDispatchedByItsOwnFields ==
    \A r \in Range(multi_gm) :
        (~requests[r].done /\ requests[r].parser.stack = <<>>) =>
            \A type \in {-1, 0, RobustircToClient, RobustPing},
               data \in {Null, "", "x"} :
                LET frame ==
                        <<Token("start_map", Null, 0, Null)>>
                        \o (IF type = -1 THEN <<>>
                            ELSE <<Token("map_key", "Type", 0, Null),
                                   Token("integer", Null, type, Null)>>)
                        \o (IF data = Null THEN <<>>
                            ELSE <<Token("map_key", "Data", 0, Null),
                                   Token("string", Null, 0, data)>>)
                        \o <<Token("end_map", Null, 0, Null)>>
                    w == GmWriteFunc(Listening, r, frame)
                    own == type = RobustircToClient /\ data \notin {Null, ""}
                IN  /\ ("incoming" \in Range(w.host.heard)) <=> own
                    /\ ~own => w.ctxs[requests[r].ctx].lastseen
                                  = ctxs[requests[r].ctx].lastseen

\* C34: a chunk of the GetMessages stream that does not parse tears nothing
\* down: the request stays in flight with its target and its idle timer, the
\* registry records no failure, last_seen keeps its value, and the host is
\* given no line and no disconnect.
C34_ParseErrorKeepsStream ==
    [][last'.op = "garbage" =>
          LET r == last'.num IN
          /\ multi_gm' = multi_gm
          /\ multi' = multi
          /\ DOMAIN requests' = DOMAIN requests
          /\ \A x \in (DOMAIN requests) \ {r} : requests'[x] = requests[x]
          /\ requests'[r].target = requests[r].target
          /\ requests'[r].timeout_tag = requests[r].timeout_tag
          /\ requests'[r].done = requests[r].done
          /\ networks' = networks
          /\ retries' = retries
          /\ ctxs' = ctxs
          /\ host' = host]_vars

C34_Witness ==
    /\ last.op = "garbage"
    /\ last.num \in Range(multi_gm)
    /\ ~requests[last.num].done
    /\ requests[last.num].data = "x"
    /\ requests[last.num].parser.stack # <<>>
    /\ ~host.connection_lost

\* C35: every launch of a GetMessages request, the first one of a session,
\* a reissue and a relaunch after an idle timeout alike, prints into its URL
\* the value last_seen has at that moment.
C35_LaunchCarriesLastSeen ==
    /\ \A r \in Range(multi_gm) :
          requests[r].url_lastseen = ctxs[requests[r].ctx].lastseen
    /\ [][\A r \in Range(multi_gm') :
             (\/ r \notin Range(multi_gm)
              \/ requests'[r].target # requests[r].target) =>
                 requests'[r].url_lastseen = ctxs'[requests'[r].ctx].lastseen]_vars

C35_Witness ==
    \E r \in Range(multi_gm) :
        /\ ~requests[r].done
        /\ requests[r].url_lastseen = <<4, 0>>
        /\ ctxs[requests[r].ctx].lastseen = <<4, 0>>
        /\ requests[r].data = Null
        /\ last.op \in {"idle", "temporary", "ok", "retry"}

\* C36: a request that completes with a permanent HTTP status records a
\* failure of its target in the registry of the address as well: in the state
\* in which the session is disconnected the exponent of the target has been
\* raised and the target is in backoff, so that a pick for that address, by
\* whichever session, does not deliver it.
C36_PermanentFailureIsRecorded ==
    [][last'.op = "permanent" =>
          LET t == last'.target
              n == networks'[NetKey]
          IN  /\ host'.connection_lost
              /\ t \in DOMAIN n.backoff
              /\ n.backoff[t].exponent = FailedExponent(Net, t)
              /\ n.backoff[t].next > TimeNow
              /\ ~Usable(n, t)
              /\ NetworkServer(n).target # t]_vars

C36_Witness ==
    /\ last.op = "permanent"
    /\ host.connection_lost
    /\ Len(ctxs) > 1
    /\ ~Usable(Net, last.target)
    /\ \E s \in Range(Net.servers) : Usable(Net, s)

\* C37: every PostMessage request names in its URL the session id that
\* CreateSession returned, whenever the host submitted its line: no
\* PostMessage exists for a session that has no session id.
C37_PostNamesSession ==
    \A r \in DOMAIN requests :
        requests[r].type = "PostMessage" =>
            /\ ctxs[requests[r].ctx].sessionid = TRUE
            /\ requests[r].url_suffix = UrlSuffix(TRUE, "message")

\* C38: the session context that robustsession_connect returned to the host
\* is the one that goes on to CreateSession and GetMessages, also after a
\* resolver failure and the retry that follows: every such request belongs to
\* the host's context, and once the host has destroyed its context no request
\* is left in a multi handle.
C38_HostHoldsTheRunningSession ==
    /\ \A r \in DOMAIN requests :
          requests[r].type \in {"CreateSession", "GetMessages"} =>
              requests[r].ctx = host.ctx
    /\ host.destroyed => (multi = <<>> /\ multi_gm = <<>>)

C40_TimerArmedIffGetMessagesInFlight ==
    \A c \in DOMAIN ctxs :
        LET armed == {r \in DOMAIN requests :
                         /\ requests[r].ctx = c
                         /\ requests[r].timeout_tag # NoTimer}
            flying == {r \in DOMAIN requests :
                          /\ requests[r].ctx = c
                          /\ requests[r].type = "GetMessages"
                          /\ r \in Range(multi_gm)
                          /\ ~requests[r].done}
        IN  /\ Cardinality(flying) <= 1
            /\ armed = flying
=============================================================================
